---- MODULE Spec2Model ----
(***************************************************************************)
(* Retrieval core of AIRBud 2.0 (services/rag_core): the page-aware        *)
(* parent/child DocumentChunker, SmartRAG.search with parent               *)
(* deduplication, the collection-level merge of query_collection, and the  *)
(* SmartRAG index/save/load life cycle with the index cache.               *)
(*                                                                         *)
(* Text is a sequence of symbols.  The symbol "H" stands for the literal   *)
(* "## Page " of a page marker; "1" and "2" are digits, "a" is a content   *)
(* character and " " is whitespace.                                        *)
(***************************************************************************)
EXTENDS Integers, Sequences, FiniteSets, TLC

\* ------------------------------------------------------------------ bounds
MaxTextLen == 6
\* scaled stand-ins for the splitter sizes 2000/200 and 400/50
ParentChunkSize == 4
ParentChunkOverlap == 1
ChildChunkSize == 2
ChildChunkOverlap == 1
\* scaled stand-in for the 500 MB default
MAX_DOCUMENT_SIZE_CHARS == 6

\* search: children in an index, embedding values, top_k values
MaxChildren == 4
MaxEmbedding == 1
MaxTopK == 2
\* index.search is asked for top_k * 3 neighbours
OverFetch == 3

\* collection query: loaded pipelines, distance values of their hits
MaxPipelines == 2
MaxDistance == 2
\* each pipeline is searched with top_k=3
SearchTopK == 3
\* the merged list is cut to all_results[:5]
GlobalTopK == 5

\* life cycle: documents, query-side SmartRAG instances, document length
MaxDocs == 2
MaxLoaders == 2
MaxDocLen == 4
\* longest query string and longest completion text
MaxQueryLen == 3
MaxCompletionLen == 2
\* scaled stand-in for the 2000 characters reword_query keeps of a query
MaxRewordLen == 2
\* threads that call get_embedding_model
MaxThreads == 3
\* documents of the queried collection, and hits of one search in a query
MaxQueryDocs == 2
MaxQueryHits == 2
\* scaled stand-in for the 500 entries of the index cache
CACHE_CAPACITY == 2
\* threads that call get_cached_state and put_cached_state
MaxCacheThreads == 2
MaxRequests == 2
MaxCallers == 3
MaxImages == 1

\* parent_id of a chunk without parent (Python None)
NoneId == 0

Sym == {"H", "1", "2", "a", " "}
Digits == {"1", "2"}

RECURSIVE SeqsUpTo(_, _)
SeqsUpTo(S, n) ==
  IF n = 0 THEN {<<>>}
  ELSE LET shorter == SeqsUpTo(S, n - 1)
       IN shorter \cup {Append(s, x) : s \in {q \in shorter : Len(q) = n - 1}, x \in S}

\* texts one symbol longer than the size limit
OversizedTexts == [1..(MAX_DOCUMENT_SIZE_CHARS + 1) -> {"H", "1", "a"}]

Texts == SeqsUpTo(Sym, MaxTextLen) \cup OversizedTexts

\* source paths as <<directory, file name>>
Sources == {<<"/app/data/uploads", "a.pdf">>}

\* ------------------------------------------------------- string helpers
IsDigit(c) == c \in Digits

DigitVal(c) == CASE c = "1" -> 1 [] c = "2" -> 2

IsSpace(c) == c = " "

RECURSIVE LStrip(_)
LStrip(s) == IF s # <<>> /\ IsSpace(Head(s)) THEN LStrip(Tail(s)) ELSE s

RECURSIVE RStrip(_)
RStrip(s) ==
  IF s # <<>> /\ IsSpace(s[Len(s)]) THEN RStrip(SubSeq(s, 1, Len(s) - 1)) ELSE s

\* str.strip()
Strip(s) == RStrip(LStrip(s))

\* b occurs in a as a contiguous substring
Contains(a, b) ==
  \E i \in 1..(Len(a) + 1) :
    /\ i + Len(b) - 1 <= Len(a)
    /\ SubSeq(a, i, i + Len(b) - 1) = b

\* os.path.basename
Basename(path) == path[2]

\* ------------------------------------------- PAGE_MARKER_PATTERN (regex)
\* r"(## Page \d+)" matches at position i
MarkerAt(t, i) == /\ i + 1 <= Len(t)
                  /\ t[i] = "H"
                  /\ IsDigit(t[i + 1])

\* \d+ is greedy: last position of the digit run that contains position j
RECURSIVE DigitRunEnd(_, _)
DigitRunEnd(t, j) ==
  IF j + 1 <= Len(t) /\ IsDigit(t[j + 1]) THEN DigitRunEnd(t, j + 1) ELSE j

\* PAGE_MARKER_PATTERN.split(text): [pre, marker, post, marker, post, ...]
RECURSIVE SplitFrom(_, _, _)
SplitFrom(t, i, cur) ==
  IF i > Len(t) THEN <<cur>>
  ELSE IF MarkerAt(t, i)
       THEN LET e == DigitRunEnd(t, i + 1)
            IN <<cur, SubSeq(t, i, e)>> \o SplitFrom(t, e + 1, <<>>)
       ELSE SplitFrom(t, i + 1, Append(cur, t[i]))

PageMarkerSplit(t) == SplitFrom(t, 1, <<>>)

\* PAGE_MARKER_PATTERN.match(part): a match at the start of part
PageMarkerMatch(part) == MarkerAt(part, 1)

\* part.rsplit(' ', 1)[-1]: what follows the last space ("H" ends in one)
RECURSIVE RSplitLast(_)
RSplitLast(part) ==
  IF part = <<>> THEN <<>>
  ELSE LET last == part[Len(part)]
       IN IF last \in {"H", " "} THEN <<>>
          ELSE Append(RSplitLast(SubSeq(part, 1, Len(part) - 1)), last)

\* int(s) raises ValueError unless s is a non-empty run of digits
IntOk(s) == s # <<>> /\ \A k \in 1..Len(s) : IsDigit(s[k])

RECURSIVE IntVal(_)
IntVal(s) ==
  IF s = <<>> THEN 0
  ELSE 10 * IntVal(SubSeq(s, 1, Len(s) - 1)) + DigitVal(s[Len(s)])

\* ------------------------------------------ RecursiveCharacterTextSplitter
\* the separators of the configured list that the alphabet can contain
Separators == <<" ", "">>

RECURSIVE TotalLen(_)
TotalLen(pieces) ==
  IF pieces = <<>> THEN 0 ELSE Len(Head(pieces)) + TotalLen(Tail(pieces))

RECURSIVE Concat(_)
Concat(pieces) ==
  IF pieces = <<>> THEN <<>> ELSE Head(pieces) \o Concat(Tail(pieces))

\* join the pieces and strip; an empty document is dropped
JoinDoc(pieces) ==
  LET doc == Strip(Concat(pieces)) IN IF doc = <<>> THEN <<>> ELSE <<doc>>

\* split on " " keeping the separator at the start of the following piece
RECURSIVE SplitKeep(_, _, _)
SplitKeep(t, i, cur) ==
  LET flush == IF cur = <<>> THEN <<>> ELSE <<cur>>
  IN IF i > Len(t) THEN flush
     ELSE IF t[i] = " " THEN flush \o SplitKeep(t, i + 1, <<" ">>)
     ELSE SplitKeep(t, i + 1, Append(cur, t[i]))

SplitOn(t, sep) ==
  IF sep = "" THEN [k \in 1..Len(t) |-> <<t[k]>>] ELSE SplitKeep(t, 1, <<>>)

\* drop pieces from the front until the overlap fits
RECURSIVE Shrink(_, _, _, _)
Shrink(cur, len, size, overlap) ==
  IF \/ TotalLen(cur) > overlap
     \/ (TotalLen(cur) + len > size /\ TotalLen(cur) > 0)
  THEN Shrink(Tail(cur), len, size, overlap)
  ELSE cur

\* _merge_splits with the empty join separator
RECURSIVE MergeLoop(_, _, _, _, _, _)
MergeLoop(splits, k, cur, docs, size, overlap) ==
  IF k > Len(splits) THEN docs \o JoinDoc(cur)
  ELSE LET d == splits[k]
       IN IF TotalLen(cur) + Len(d) > size /\ cur # <<>>
          THEN MergeLoop(splits, k + 1,
                         Append(Shrink(cur, Len(d), size, overlap), d),
                         docs \o JoinDoc(cur), size, overlap)
          ELSE MergeLoop(splits, k + 1, Append(cur, d), docs, size, overlap)

MergeSplits(splits, size, overlap) == MergeLoop(splits, 1, <<>>, <<>>, size, overlap)

\* index in seps of the separator _split_text picks for t
RECURSIVE PickSep(_, _, _)
PickSep(t, seps, i) ==
  IF i >= Len(seps) THEN Len(seps)
  ELSE IF seps[i] = "" \/ (\E k \in 1..Len(t) : t[k] = seps[i]) THEN i
  ELSE PickSep(t, seps, i + 1)

RECURSIVE SplitText(_, _, _, _)
RECURSIVE SplitTextLoop(_, _, _, _, _, _, _)
SplitTextLoop(splits, k, good, final, newSeps, size, overlap) ==
  IF k > Len(splits)
  THEN final \o (IF good = <<>> THEN <<>> ELSE MergeSplits(good, size, overlap))
  ELSE LET s == splits[k]
       IN IF Len(s) < size
          THEN SplitTextLoop(splits, k + 1, Append(good, s), final, newSeps, size, overlap)
          ELSE LET merged == IF good = <<>> THEN <<>> ELSE MergeSplits(good, size, overlap)
                   deeper == IF newSeps = <<>> THEN <<s>>
                             ELSE SplitText(s, newSeps, size, overlap)
               IN SplitTextLoop(splits, k + 1, <<>>, final \o merged \o deeper,
                                newSeps, size, overlap)

\* RecursiveCharacterTextSplitter._split_text
SplitText(t, seps, size, overlap) ==
  LET i == PickSep(t, seps, 1)
      sep == seps[i]
      newSeps == IF sep = "" THEN <<>> ELSE SubSeq(seps, i + 1, Len(seps))
  IN SplitTextLoop(SplitOn(t, sep), 1, <<>>, <<>>, newSeps, size, overlap)

\* parent_splitter.create_documents([text])
ParentSplit(t) == SplitText(t, Separators, ParentChunkSize, ParentChunkOverlap)

\* child_splitter.create_documents([p_doc.page_content])
ChildSplit(t) == SplitText(t, Separators, ChildChunkSize, ChildChunkOverlap)

\* ------------------------------------------------------------ Chunk model
Chunk(t, src, pg, id, parent, isParent, meta) ==
  [text |-> t, source |-> src, page |-> pg, chunk_id |-> id,
   parent_id |-> parent, is_parent |-> isParent, metadata |-> meta]

\* str(uuid4()): the next unused identifier
Uuid4(acc) == acc.next_id

\* the inner loop of _chunk_page_text over child_docs
RECURSIVE ChildLoop(_, _, _, _, _, _)
RECURSIVE ChildLoop_Prepend(_, _, _, _, _, _)
\* mutant: child_chunks.insert(0, child_chunk) in place of append
ChildLoop_Prepend(child_docs, k, src, pg, parent_id, acc) ==
  IF k > Len(child_docs) THEN acc
  ELSE LET child_id == Uuid4(acc)
           child_chunk == Chunk(child_docs[k], src, pg, child_id, parent_id, FALSE, <<>>)
       IN ChildLoop(child_docs, k + 1, src, pg, parent_id,
                    [acc EXCEPT !.child_chunks = <<child_chunk>> \o @,
                                !.next_id = @ + 1])

ChildLoop(child_docs, k, src, pg, parent_id, acc) ==
  IF k > Len(child_docs) THEN acc
  ELSE LET child_id == Uuid4(acc)
           child_chunk == Chunk(child_docs[k], src, pg, child_id, parent_id, FALSE, <<>>)
       IN ChildLoop(child_docs, k + 1, src, pg, parent_id,
                    [acc EXCEPT !.child_chunks = Append(@, child_chunk),
                                !.next_id = @ + 1])

\* the outer loop of _chunk_page_text over enumerate(parent_docs)
RECURSIVE ParentLoop(_, _, _, _, _)
RECURSIVE ParentLoop_FreshId(_, _, _, _, _)
\* mutant: the children get a second uuid4() instead of the parent's id
ParentLoop_FreshId(parent_docs, p_idx, src, pg, acc) ==
  IF p_idx >= Len(parent_docs) THEN acc
  ELSE LET p_doc == parent_docs[p_idx + 1]
           parent_id == Uuid4(acc)
           parent_chunk == Chunk(p_doc, src, pg, parent_id, NoneId, TRUE,
                                 <<<<"index", p_idx>>>>)
           acc1 == [acc EXCEPT !.parent_map = (parent_id :> parent_chunk) @@ @,
                               !.next_id = @ + 2]
       IN ParentLoop(parent_docs, p_idx + 1, src, pg,
                     ChildLoop(ChildSplit(p_doc), 1, src, pg, parent_id + 1, acc1))

ParentLoop(parent_docs, p_idx, src, pg, acc) ==
  IF p_idx >= Len(parent_docs) THEN acc
  ELSE LET p_doc == parent_docs[p_idx + 1]
           parent_id == Uuid4(acc)
           parent_chunk == Chunk(p_doc, src, pg, parent_id, NoneId, TRUE,
                                 <<<<"index", p_idx>>>>)
           acc1 == [acc EXCEPT !.parent_map = (parent_id :> parent_chunk) @@ @,
                               !.next_id = @ + 1]
       IN ParentLoop(parent_docs, p_idx + 1, src, pg,
                     ChildLoop(ChildSplit(p_doc), 1, src, pg, parent_id, acc1))

\* DocumentChunker._chunk_page_text
ChunkPageText(t, src, pg, acc) == ParentLoop(ParentSplit(t), 0, src, pg, acc)

\* mutant: the page number of the marker is never taken over
MarkerPage_Stale(part, current_page) == current_page

\* the page a marker part sets: int() of its number, or the page so far
MarkerPage(part, current_page) ==
  LET page_num_str == RSplitLast(part)
  IN IF IntOk(page_num_str) THEN IntVal(page_num_str) ELSE current_page

\* the while loop of DocumentChunker.process (i is 1-based here)
RECURSIVE ProcessLoop(_, _, _, _, _)
ProcessLoop(parts, i, current_page, filename, acc) ==
  IF i > Len(parts) THEN acc
  ELSE LET part == parts[i]
       IN IF PageMarkerMatch(part)
          THEN LET pg == MarkerPage(part, current_page)
               IN IF i + 1 <= Len(parts)
                  THEN LET content == parts[i + 1]
                       IN ProcessLoop(parts, i + 2, pg, filename,
                                      IF Strip(content) # <<>>
                                      THEN ChunkPageText(content, filename, pg, acc)
                                      ELSE acc)
                  ELSE ProcessLoop(parts, i + 1, pg, filename, acc)
          ELSE ProcessLoop(parts, i + 1, current_page, filename,
                           IF Strip(part) # <<>>
                           THEN ChunkPageText(part, filename, current_page, acc)
                           ELSE acc)

\* mutant: the size limit is never applied
TooLarge_Never(t) == FALSE

\* len(text) > MAX_DOCUMENT_SIZE_CHARS
TooLarge(t) == Len(t) > MAX_DOCUMENT_SIZE_CHARS

\* DocumentChunker.process; first_id is the first identifier uuid4 hands out
Process(t, src, first_id) ==
  LET empty == [child_chunks |-> <<>>, parent_map |-> <<>>, next_id |-> first_id]
  IN IF t = <<>> THEN [raised |-> FALSE, out |-> empty]
     ELSE IF TooLarge(t) THEN [raised |-> TRUE, out |-> empty]
     ELSE [raised |-> FALSE,
           out |-> ProcessLoop(PageMarkerSplit(t), 1, 0, Basename(src), empty)]

\* --------------------------------------------------------------- state
VARIABLES
  text,          \* chunker: the document text handed to process
  source,        \* chunker: the source path handed to process
  child_chunks,  \* chunker: the child-chunk list process returned
  parent_map,    \* chunker: the parent map process returned
  chunk_pc,      \* chunker: "call", "returned" or "raised"
  self_index,        \* search: self.index, the vectors in index order
  self_child_chunks, \* search: self.child_chunks
  self_parent_map,   \* search: self.parent_map
  query_emb,         \* search: the encoded query
  top_k,             \* search: the top_k argument
  D_I,               \* search: zip(D[0], I[0]) as <<distance, idx>> pairs
  pos,               \* search: position of the for loop in D_I (1-based)
  results,           \* search: the results list, <<chunk, distance>> pairs
  seen_parents,      \* search: the seen_parents set
  search_pc,         \* search: "call", "loop" or "returned"
  results_list,      \* query: the result list of each pipeline's search
  top_results,       \* query: the merged, sorted and cut list
  merge_pc,          \* query: "searched" or "merged"
  documents,         \* life cycle: the documents table, by doc id
  files,             \* life cycle: the files on disk, by path
  task_pc,           \* life cycle: where run_pipeline_task of a document is
  task_rag,          \* life cycle: the SmartRAG of run_pipeline_task
  rag,               \* life cycle: the SmartRAG of load_doc, by loader
  index_cache,       \* life cycle: _index_cache, oldest entry first
  next_uuid,         \* life cycle: the next identifier uuid4 hands out
  llm_provider,      \* llm: settings.LLM_PROVIDER, "groq" or "sanctuary"
  llm_key,           \* llm: whether the client has its credentials
  llm_backend,       \* llm: what the backend does with the next request
  question,          \* llm: the query string of the request
  llm_resp,          \* llm: the LLMResponse of the client's generate
  llm_out,           \* llm: what optimize_query or generate_answer gave back
  llm_pc,            \* llm: "call", "reworded", "answered", or "..._raised"
  embedding_model,   \* model: _embedding_model, 0 for None or an instance id
  model_lock,        \* model: the thread that holds _model_lock, or 0
  model_pc,          \* model: where each thread is in get_embedding_model
  model_ret,         \* model: what get_embedding_model returned to each thread
  constructed,       \* model: how many SentenceTransformer instances were built
  cache_lock,        \* cache: the thread that holds _cache_lock, or 0
  cache_pc,          \* cache: where each thread is in get/put_cached_state
  cache_call,        \* cache: the call each thread is in, and its result
  use_order,         \* cache: the paths by their last use, latest last
  q_docs,            \* query: the documents of the collection and their artifacts
  q_pipes,           \* query: what load_doc gave for each document
  q_hits,            \* query: what search_pipeline gave for each pipeline
  q_top,             \* query: top_results
  q_result,          \* query: the result line generate() yields
  q_pc,              \* query: where generate() is
  q_graph,           \* query: graph_context and graph_results_raw
  q_calls,           \* query: LLM calls, query records and result lines so far,
                     \*        and the arguments generate_answer was called with
  ephemeral,         \* pipeline task: settings.EPHEMERAL_MODE
  job_status,        \* pipeline task: status of the collection's processing_jobs row
  proc_req,          \* pipeline task: the /process requests
  pipe_task,         \* pipeline task: the run_pipeline_task coroutines
  doc_table,         \* pipeline task: the rows of the documents table
  disk,              \* pipeline task: index, chunk and parent files by document id
  active_model,      \* model manager: the loaded vision model
  active_model_name, \* model manager: its name
  whisper_model,     \* model manager: the loaded Whisper model
  active_users,      \* model manager: callers inside a with-block
  mgr_lock,          \* model manager: holder of self.lock
  mgr_thread         \* model manager: each caller's request and position

chunkVars == <<text, source, child_chunks, parent_map, chunk_pc>>

searchVars == <<self_index, self_child_chunks, self_parent_map, query_emb, top_k,
                D_I, pos, results, seen_parents, search_pc>>

mergeVars == <<results_list, top_results, merge_pc>>

lifeVars == <<documents, files, task_pc, task_rag, rag, index_cache, next_uuid>>

llmVars == <<llm_provider, llm_key, llm_backend, question, llm_resp, llm_out, llm_pc>>

modelVars == <<embedding_model, model_lock, model_pc, model_ret, constructed>>

cacheVars == <<cache_lock, cache_pc, cache_call, use_order>>

queryVars == <<q_docs, q_pipes, q_hits, q_top, q_result, q_pc, q_graph, q_calls>>
pipeVars == <<ephemeral, job_status, proc_req, pipe_task, doc_table, disk>>
mgrVars == <<active_model, active_model_name, whisper_model, active_users, mgr_lock, mgr_thread>>

coreVars == <<chunkVars, searchVars, mergeVars, lifeVars>>

\* the variables of the components beside chunker, search, merge and life cycle
extVars == <<llmVars, modelVars, cacheVars, queryVars, pipeVars, mgrVars>>

vars == <<chunkVars, searchVars, mergeVars, lifeVars, extVars>>

\* the variables of a component that a specification does not run
ChunkerIdle ==
  /\ text = <<>>
  /\ source = <<"", "">>
  /\ child_chunks = <<>>
  /\ parent_map = <<>>
  /\ chunk_pc = "idle"

SearchIdle ==
  /\ self_index = <<>>
  /\ self_child_chunks = <<>>
  /\ self_parent_map = <<>>
  /\ query_emb = 0
  /\ top_k = 0
  /\ D_I = <<>>
  /\ pos = 0
  /\ results = <<>>
  /\ seen_parents = {}
  /\ search_pc = "idle"

MergeIdle ==
  /\ results_list = <<>>
  /\ top_results = <<>>
  /\ merge_pc = "idle"

LifeIdle ==
  /\ documents = <<>>
  /\ files = <<>>
  /\ task_pc = <<>>
  /\ task_rag = <<>>
  /\ rag = <<>>
  /\ index_cache = <<>>
  /\ next_uuid = 1

LLMIdle ==
  /\ llm_provider = ""
  /\ llm_key = FALSE
  /\ llm_backend = <<>>
  /\ question = <<>>
  /\ llm_resp = <<>>
  /\ llm_out = <<>>
  /\ llm_pc = "idle"

ModelIdle ==
  /\ embedding_model = 0
  /\ model_lock = 0
  /\ model_pc = <<>>
  /\ model_ret = <<>>
  /\ constructed = 0

CacheIdle ==
  /\ cache_lock = 0
  /\ cache_pc = <<>>
  /\ cache_call = <<>>
  /\ use_order = <<>>

QueryIdle ==
  /\ q_docs = <<>>
  /\ q_pipes = <<>>
  /\ q_hits = <<>>
  /\ q_top = <<>>
  /\ q_result = <<>>
  /\ q_pc = "idle"
  /\ q_graph = <<>>
  /\ q_calls = <<>>

PipeIdle ==
  /\ ephemeral = FALSE
  /\ job_status = "none"
  /\ proc_req = <<>>
  /\ pipe_task = <<>>
  /\ doc_table = <<>>
  /\ disk = <<>>

MgrIdle ==
  /\ active_model = "None"
  /\ active_model_name = ""
  /\ whisper_model = "None"
  /\ active_users = 0
  /\ mgr_lock = 0
  /\ mgr_thread = <<>>

ExtIdle == LLMIdle /\ ModelIdle /\ CacheIdle /\ QueryIdle /\ PipeIdle /\ MgrIdle

\* ------------------------------------------------- chunker specification
InitChunker ==
  /\ ExtIdle
  /\ text \in Texts
  /\ source \in Sources
  /\ child_chunks = <<>>
  /\ parent_map = <<>>
  /\ chunk_pc = "call"
  /\ SearchIdle
  /\ MergeIdle
  /\ LifeIdle

\* one call of DocumentChunker.process(text, source)
ProcessCall ==
  /\ chunk_pc = "call"
  /\ LET r == Process(text, source, 1)
     IN /\ child_chunks' = r.out.child_chunks
        /\ parent_map' = r.out.parent_map
        /\ chunk_pc' = IF r.raised THEN "raised" ELSE "returned"
  /\ UNCHANGED <<text, source>>
  /\ UNCHANGED <<searchVars, mergeVars, lifeVars, extVars>>

NextChunker == ProcessCall

SpecChunker == InitChunker /\ [][NextChunker]_vars

\* ------------------------------------------------------- chunker claims
\* what the input text says, read off the text itself
MarkerStarts(t) == {m \in 1..Len(t) : MarkerAt(t, m)}

MarkerNumber(t, m) == IntVal(SubSeq(t, m + 1, DigitRunEnd(t, m + 1)))

InMarker(t, k) == \E m \in MarkerStarts(t) : m <= k /\ k <= DigitRunEnd(t, m + 1)

SetMax(S) == CHOOSE x \in S : \A y \in S : y <= x

\* the number of the nearest page marker before position i, or 0
PageAt(t, i) ==
  LET before == {m \in MarkerStarts(t) : m < i}
  IN IF before = {} THEN 0 ELSE MarkerNumber(t, SetMax(before))

AllChunks ==
  {child_chunks[k] : k \in 1..Len(child_chunks)}
    \cup {parent_map[id] : id \in DOMAIN parent_map}

PagesNonDecreasing ==
  \A i, j \in 1..Len(child_chunks) :
    i < j => child_chunks[i].page <= child_chunks[j].page

MarkersNonDecreasing ==
  \A m, n \in MarkerStarts(text) :
    m < n => MarkerNumber(text, m) <= MarkerNumber(text, n)

\* C8 as stated: for every input text, whatever the order of its page
\* markers, page is non-decreasing along the child-chunk list of process.
C8_PagesNonDecreasingAnyText == chunk_pc = "returned" => PagesNonDecreasing

\* C8 amended: the child list follows the text, so page is non-decreasing
\* along it whenever the marker numbers are non-decreasing in text order.
C8_PagesFollowMarkers ==
  (chunk_pc = "returned" /\ MarkersNonDecreasing) => PagesNonDecreasing

C8_Witness ==
  /\ chunk_pc = "returned"
  /\ MarkersNonDecreasing
  /\ \E m, n \in MarkerStarts(text) : MarkerNumber(text, m) < MarkerNumber(text, n)
  /\ \E i, j \in 1..Len(child_chunks) :
       i < j /\ child_chunks[i].page < child_chunks[j].page

\* C9: every chunk (parent or child) is a piece of the input that lies in
\* one page segment (no marker inside it), and its page is the number of
\* the nearest page marker before that piece, or 0 when none precedes it.
C9_PageOfNearestMarker ==
  chunk_pc = "returned" =>
    \A c \in AllChunks :
      \E i \in 1..Len(text) : \E j \in i..Len(text) :
        /\ SubSeq(text, i, j) = c.text
        /\ \A k \in i..j : ~InMarker(text, k)
        /\ c.page = PageAt(text, i)

C9_Witness ==
  /\ chunk_pc = "returned"
  /\ \E c, d \in AllChunks : c.page = 0 /\ d.page = 12 /\ ~d.is_parent

\* C10: every child has a parent_id that is a key of the parent map; that
\* entry is a parent (is_parent, no parent_id of its own) with the child's
\* page and source, its text contains the child's text, and the child is
\* one of the pieces the child splitter makes of that parent's text.
C10_ParentContainment ==
  chunk_pc = "returned" =>
    \A k \in 1..Len(child_chunks) :
      LET c == child_chunks[k]
      IN /\ c.parent_id # NoneId
         /\ c.parent_id \in DOMAIN parent_map
         /\ LET p == parent_map[c.parent_id]
            IN /\ p.is_parent /\ ~c.is_parent
               /\ p.parent_id = NoneId
               /\ p.chunk_id = c.parent_id
               /\ p.page = c.page
               /\ p.source = c.source
               /\ Contains(p.text, c.text)
               /\ \E n \in 1..Len(ChildSplit(p.text)) : ChildSplit(p.text)[n] = c.text

C10_Witness ==
  /\ chunk_pc = "returned"
  /\ Cardinality(DOMAIN parent_map) >= 2
  /\ \E i, j \in 1..Len(child_chunks) :
       /\ i # j
       /\ child_chunks[i].parent_id = child_chunks[j].parent_id
       /\ child_chunks[i].text # child_chunks[j].text
       /\ child_chunks[i].text # parent_map[child_chunks[i].parent_id].text

\* C11: process on a text longer than MAX_DOCUMENT_SIZE_CHARS raises the
\* size-limit error and leaves no child chunk and no parent-map entry; on a
\* text at or below the limit it never raises the size-limit error.
C11_SizeLimit ==
  chunk_pc \in {"returned", "raised"} =>
    /\ Len(text) > MAX_DOCUMENT_SIZE_CHARS
         => chunk_pc = "raised" /\ child_chunks = <<>> /\ parent_map = <<>>
    /\ Len(text) <= MAX_DOCUMENT_SIZE_CHARS => chunk_pc = "returned"

\* process has raised on an oversized text that holds a page marker and
\* content, which would have been chunked without the limit
C11_Witness ==
  /\ chunk_pc = "raised"
  /\ Len(text) = MAX_DOCUMENT_SIZE_CHARS + 1
  /\ MarkerAt(text, 1)
  /\ text[Len(text)] = "a"

\* ------------------------------------------------------ SmartRAG.search
Min(a, b) == IF a <= b THEN a ELSE b

\* self.index is None, or a flat index holding the vectors in insertion order
NoIndex == [present |-> FALSE, vectors |-> <<>>]

FlatIndex(vs) == [present |-> TRUE, vectors |-> vs]

\* the squared L2 distance IndexFlatL2 reports (one embedding dimension)
L2(q, v) == (q - v) * (q - v)

\* the distance index.search reports beside the label -1 of a missing neighbour
PadDist == (MaxEmbedding + 1) * (MaxEmbedding + 1)

\* mutant: neighbours ranked as by an inner-product index, largest first
Ranked_Descending(d1, d2) == d1 >= d2

\* IndexFlatL2 ranks neighbours by increasing distance
Ranked(d1, d2) == d1 <= d2

\* the label lists index.search may return for k neighbours: the min(k, n)
\* nearest vectors, nearest first; the order among equal distances is open
NearestLabels(idx, q, k) ==
  LET n == Len(idx.vectors)
      m == Min(k, n)
      d(label) == L2(q, idx.vectors[label + 1])
  IN {f \in [1..m -> 0..(n - 1)] :
        /\ \A a, b \in 1..m : a < b => f[a] # f[b] /\ Ranked(d(f[a]), d(f[b]))
        /\ \A x \in 0..(n - 1) :
             (\A a \in 1..m : f[a] # x) => \A a \in 1..m : Ranked(d(f[a]), d(x))}

\* zip(D[0], I[0]) of index.search(query_emb, k): k pairs, padded with -1
IndexSearch(idx, q, k) ==
  {[i \in 1..k |-> IF i <= Len(f)
                   THEN <<L2(q, idx.vectors[f[i] + 1]), f[i]>>
                   ELSE <<PadDist, -1>>] : f \in NearestLabels(idx, q, k)}

\* mutant: a resolvable parent is emitted for every child that hits it
Emit_NoDedup(child, dist, pmap, res, seen) ==
  IF child.parent_id # NoneId /\ child.parent_id \in DOMAIN pmap
  THEN [results |-> Append(res, <<pmap[child.parent_id], dist>>),
        seen_parents |-> seen \cup {child.parent_id}]
  ELSE [results |-> Append(res, <<child, dist>>), seen_parents |-> seen]

\* mutant: a child whose parent was already emitted falls back to the child
Emit_SeenFallsBack(child, dist, pmap, res, seen) ==
  IF child.parent_id # NoneId /\ child.parent_id \in DOMAIN pmap
       /\ child.parent_id \notin seen
  THEN [results |-> Append(res, <<pmap[child.parent_id], dist>>),
        seen_parents |-> seen \cup {child.parent_id}]
  ELSE [results |-> Append(res, <<child, dist>>), seen_parents |-> seen]

\* the body of the for loop for one valid hit: parent, nothing, or child
Emit(child, dist, pmap, res, seen) ==
  IF child.parent_id # NoneId /\ child.parent_id \in DOMAIN pmap
  THEN IF child.parent_id \notin seen
       THEN [results |-> Append(res, <<pmap[child.parent_id], dist>>),
             seen_parents |-> seen \cup {child.parent_id}]
       ELSE [results |-> res, seen_parents |-> seen]
  ELSE [results |-> Append(res, <<child, dist>>), seen_parents |-> seen]

\* mutant: the loop runs until more than top_k results exist
Break_OffByOne(res, k) == Len(res) > k

\* if len(results) >= top_k: break
Break(res, k) == Len(res) >= k

\* mutant: index.search is asked for top_k neighbours only
FetchCount_NoOverFetch(k) == k

\* the number of neighbours asked of index.search: top_k * 3
FetchCount(k) == k * OverFetch

\* search up to the for loop: the early return, or index.search
SearchCall ==
  /\ search_pc = "call"
  /\ IF ~self_index.present \/ self_child_chunks = <<>>
     THEN /\ search_pc' = "returned"
          /\ D_I' = <<>>
     ELSE /\ search_pc' = "loop"
          /\ D_I' \in IndexSearch(self_index, query_emb, FetchCount(top_k))
  /\ pos' = 1
  /\ results' = <<>>
  /\ seen_parents' = {}
  /\ UNCHANGED <<self_index, self_child_chunks, self_parent_map, query_emb, top_k>>
  /\ UNCHANGED <<chunkVars, mergeVars, lifeVars, extVars>>

\* one iteration of the for loop of search, and the return after the last
SearchStep ==
  /\ search_pc = "loop"
  /\ LET dist == D_I[pos][1]
         idx == D_I[pos][2]
     IN IF idx < 0 \/ idx >= Len(self_child_chunks)
        THEN /\ UNCHANGED <<results, seen_parents>>
             /\ search_pc' = IF pos = Len(D_I) THEN "returned" ELSE "loop"
        ELSE LET r == Emit(self_child_chunks[idx + 1], dist, self_parent_map,
                           results, seen_parents)
             IN /\ results' = r.results
                /\ seen_parents' = r.seen_parents
                /\ search_pc' = IF Break(r.results, top_k) \/ pos = Len(D_I)
                                THEN "returned" ELSE "loop"
  /\ pos' = pos + 1
  /\ UNCHANGED <<self_index, self_child_chunks, self_parent_map, query_emb, top_k, D_I>>
  /\ UNCHANGED <<chunkVars, mergeVars, lifeVars, extVars>>

\* the for loop of search from position m of the hits di to its end
RECURSIVE SearchLoop(_, _, _, _, _, _, _)
SearchLoop(di, m, chunks, pmap, k, res, seen) ==
  IF m > Len(di) THEN res
  ELSE LET dist == di[m][1]
           idx == di[m][2]
       IN IF idx < 0 \/ idx >= Len(chunks)
          THEN SearchLoop(di, m + 1, chunks, pmap, k, res, seen)
          ELSE LET r == Emit(chunks[idx + 1], dist, pmap, res, seen)
               IN IF Break(r.results, k) THEN r.results
                  ELSE SearchLoop(di, m + 1, chunks, pmap, k, r.results, r.seen_parents)

\* the result lists search(query, top_k) may return on an instance with
\* the given index, child chunks and parent map, for the encoded query q
Search(index, chunks, pmap, q, k) ==
  IF ~index.present \/ chunks = <<>> THEN {<<>>}
  ELSE {SearchLoop(di, 1, chunks, pmap, k, <<>>, {}) :
          di \in IndexSearch(index, q, FetchCount(k))}

\* ids of the parents a searched instance may refer to
ParentIds == {MaxChildren + 1, MaxChildren + 2}

\* the parent maps of a searched instance: whole, partial, or the empty
\* container of an instance loaded without its parents file
ParentMaps ==
  {[id \in K |-> Chunk(<<"a", "a">>, "a.pdf", 0, id, NoneId, TRUE, <<<<"index", 0>>>>)] :
     K \in {ParentIds, {MaxChildren + 1}, {}}}

ChildLists(n) ==
  {[i \in 1..n |-> Chunk(<<"a">>, "a.pdf", 0, i, par[i], FALSE, <<>>)] :
     par \in [1..n -> {NoneId} \cup ParentIds]}

InitSearch ==
  /\ ExtIdle
  /\ ChunkerIdle
  /\ MergeIdle
  /\ LifeIdle
  /\ \E n \in 0..MaxChildren :
       /\ self_child_chunks \in ChildLists(n)
       /\ self_index \in {NoIndex} \cup
                         IF n = 0 THEN {}
                         ELSE {FlatIndex(vs) : vs \in [1..n -> 0..MaxEmbedding]}
  /\ self_parent_map \in ParentMaps
  /\ query_emb \in 0..MaxEmbedding
  /\ top_k \in 1..MaxTopK
  /\ D_I = <<>>
  /\ pos = 0
  /\ results = <<>>
  /\ seen_parents = {}
  /\ search_pc = "call"

NextSearch == SearchCall \/ SearchStep

SpecSearch == InitSearch /\ [][NextSearch]_vars

\* -------------------------------------------------------- search claims
\* the hits of D_I that name a chunk, and the chunk each names
ValidHit(m) == D_I[m][2] >= 0 /\ D_I[m][2] < Len(self_child_chunks)

ValidHits == {m \in 1..Len(D_I) : ValidHit(m)}

HitChild(m) == self_child_chunks[D_I[m][2] + 1]

Resolvable(c) == c.parent_id # NoneId /\ c.parent_id \in DOMAIN self_parent_map

\* the hits the for loop has been through
Consumed == {m \in ValidHits : m < pos}

\* C1: the result list of search never holds two entries with the same
\* chunk_id; a parent is emitted at most once however many of its children
\* are among the candidates.
C1_NoDuplicateChunkId ==
  \A i, j \in 1..Len(results) :
    i # j => results[i][1].chunk_id # results[j][1].chunk_id

C1_Witness ==
  /\ search_pc = "returned"
  /\ Len(results) >= 2
  /\ \E m, n \in Consumed :
       /\ m # n
       /\ Resolvable(HitChild(m))
       /\ HitChild(m).parent_id = HitChild(n).parent_id

\* C2: when every candidate resolves to a parent, search asks for 3 * top_k
\* neighbours, gets the min(3 * top_k, ntotal) nearest, and returns exactly
\* min(top_k, number of distinct parents among them) results.
C2_ResultCount ==
  (/\ search_pc = "returned"
   /\ self_index.present
   /\ \A m \in ValidHits : Resolvable(HitChild(m)))
  => /\ Len(D_I) = top_k * OverFetch
     /\ Cardinality(ValidHits) = Min(top_k * OverFetch, Len(self_child_chunks))
     /\ Len(results) =
          Min(top_k, Cardinality({HitChild(m).parent_id : m \in ValidHits}))

C2_Witness ==
  /\ search_pc = "returned"
  /\ top_k >= 2
  /\ Cardinality(ValidHits) >= 3
  /\ \A m \in ValidHits : Resolvable(HitChild(m))
  /\ Cardinality({HitChild(m).parent_id : m \in ValidHits}) = 1
  /\ Len(results) = 1

\* C3: search never holds more than top_k results, and the for loop goes
\* on only while fewer than top_k results have been emitted.
C3_AtMostTopK ==
  /\ Len(results) <= top_k
  /\ search_pc = "loop" => Len(results) < top_k

C3_Witness ==
  /\ search_pc = "returned"
  /\ Len(results) = top_k
  /\ \E m \in ValidHits : m >= pos
  /\ \E m \in Consumed : Resolvable(HitChild(m)) /\ \E n \in Consumed : n < m
         /\ HitChild(n).parent_id = HitChild(m).parent_id
  /\ \E m \in Consumed : ~Resolvable(HitChild(m))

\* C4: the returned list is in non-decreasing distance order, and the
\* distance beside an emitted parent is the smallest distance of the query
\* to any child of that parent in the index.
C4_SortedNearestChild ==
  search_pc = "returned" =>
    /\ \A i, j \in 1..Len(results) : i < j => results[i][2] <= results[j][2]
    /\ \A i \in 1..Len(results) :
         results[i][1].is_parent =>
           LET kids == {k \in 1..Len(self_child_chunks) :
                          self_child_chunks[k].parent_id = results[i][1].chunk_id}
           IN /\ \E k \in kids : results[i][2] = L2(query_emb, self_index.vectors[k])
              /\ \A k \in kids : results[i][2] <= L2(query_emb, self_index.vectors[k])

C4_Witness ==
  /\ search_pc = "returned"
  /\ \E i, j \in 1..Len(results) : results[i][2] < results[j][2]
  /\ \E i \in 1..Len(results) :
       /\ results[i][1].is_parent
       /\ \E k \in 1..Len(self_child_chunks) :
            /\ self_child_chunks[k].parent_id = results[i][1].chunk_id
            /\ results[i][2] < L2(query_emb, self_index.vectors[k])

\* C5: in the for loop, a hit whose parent_id is null or not a key of the
\* parent map appends (child, distance); a hit whose parent is resolvable
\* and already seen appends nothing.
C5_OrphanChildSeenSkipped ==
  [][(search_pc = "loop" /\ ValidHit(pos)) =>
       LET c == HitChild(pos)
       IN /\ ~Resolvable(c) => results' = Append(results, <<c, D_I[pos][1]>>)
          /\ (Resolvable(c) /\ c.parent_id \in seen_parents) => results' = results]_vars

C5_Witness ==
  /\ search_pc = "returned"
  /\ \E m \in Consumed : ~Resolvable(HitChild(m))
  /\ \E m, n \in Consumed :
       /\ n < m
       /\ Resolvable(HitChild(m))
       /\ HitChild(n).parent_id = HitChild(m).parent_id

\* ------------------------------------- query_collection: merge of the hits
RECURSIVE Flatten(_)
\* all_results.extend(res) for res in results_list
Flatten(lists) ==
  IF lists = <<>> THEN <<>> ELSE Head(lists) \o Flatten(Tail(lists))

\* insert hit h behind every hit whose distance is not larger (stable)
RECURSIVE InsertByDistance(_, _)
InsertByDistance(sorted, h) ==
  IF sorted = <<>> THEN <<h>>
  ELSE IF Head(sorted)[2] <= h[2]
       THEN <<Head(sorted)>> \o InsertByDistance(Tail(sorted), h)
       ELSE <<h>> \o sorted

\* all_results.sort(key=lambda x: x[1]): stable, ascending by distance
RECURSIVE SortByDistance(_)
SortByDistance(hits) ==
  IF hits = <<>> THEN <<>>
  ELSE InsertByDistance(SortByDistance(SubSeq(hits, 1, Len(hits) - 1)), hits[Len(hits)])

\* hits[:n]
Take(hits, n) == SubSeq(hits, 1, Min(n, Len(hits)))

\* mutant: the concatenation is cut to five before it is sorted
TopResults_CutThenSort(lists) == SortByDistance(Take(Flatten(lists), GlobalTopK))

\* extend, sort by distance, cut to the global top five
TopResults(lists) == Take(SortByDistance(Flatten(lists)), GlobalTopK)

\* the concatenate / sort / cut step of generate()
MergeResults ==
  /\ merge_pc = "searched"
  /\ top_results' = TopResults(results_list)
  /\ merge_pc' = "merged"
  /\ UNCHANGED results_list
  /\ UNCHANGED <<chunkVars, searchVars, lifeVars, extVars>>

\* what search(top_k=3) of pipeline p can return: at most three hits of
\* distinct chunks of that document, in non-decreasing distance order
SearchResults(p) ==
  {[i \in DOMAIN ds |-> <<Chunk(<<"a">>, "a.pdf", p, (p - 1) * SearchTopK + i, NoneId,
                                  TRUE, <<<<"index", i - 1>>>>), ds[i]>>] :
     ds \in UNION {[1..n -> 0..MaxDistance] : n \in 0..SearchTopK}}

SortedHits(hits) == \A i, j \in 1..Len(hits) : i < j => hits[i][2] <= hits[j][2]

InitMerge ==
  /\ ExtIdle
  /\ ChunkerIdle
  /\ SearchIdle
  /\ LifeIdle
  /\ \E np \in 1..MaxPipelines :
       results_list \in {rl \in [1..np -> UNION {SearchResults(p) : p \in 1..np}] :
                           \A p \in 1..np : rl[p] \in SearchResults(p) /\ SortedHits(rl[p])}
  /\ top_results = <<>>
  /\ merge_pc = "searched"

NextMerge == MergeResults

SpecMerge == InitMerge /\ [][NextMerge]_vars

\* C6: the merged list is the concatenation of the per-document results
\* sorted by non-decreasing distance and cut to five: it has
\* min(5, total hits) entries, all of them hits of the concatenation, and
\* no hit left out is nearer than a hit kept, whatever document it is from.
C6_MergedTopFive ==
  merge_pc = "merged" =>
    LET all == Flatten(results_list)
        allSet == {all[k] : k \in 1..Len(all)}
        kept == {top_results[k] : k \in 1..Len(top_results)}
    IN /\ Len(top_results) = Min(GlobalTopK, Len(all))
       /\ Cardinality(kept) = Len(top_results)
       /\ kept \subseteq allSet
       /\ SortedHits(top_results)
       /\ \A left \in allSet \ kept : \A k \in kept : k[2] <= left[2]

C6_Witness ==
  /\ merge_pc = "merged"
  /\ Len(results_list) = 2
  /\ Len(results_list[1]) = SearchTopK
  /\ Len(results_list[2]) = SearchTopK
  /\ Len(top_results) = GlobalTopK
  /\ \E k \in 1..SearchTopK : results_list[1][k] \notin {top_results[m] : m \in 1..GlobalTopK}
  /\ top_results[1] \in {results_list[2][k] : k \in 1..SearchTopK}

\* ------------------------------------------ SmartRAG life cycle and cache
Docs == 1..MaxDocs

Loaders == 1..MaxLoaders

\* the markdown text index_document gets for a document
DocTexts == SeqsUpTo({"a", " "}, MaxDocLen)

UploadSource == <<"/app/data/uploads", "a.pdf">>

\* file paths; the empty path is the empty string
NoPath == <<>>

FaissPath(doc_id) == <<"index", doc_id>>

ChunksPath(doc_id) == <<"chunks", doc_id>>

ParentsPathOfDoc(doc_id) == <<"parents", doc_id>>

\* mutant: the parents file is looked for under the chunks path itself
ParentsPath_Same(chunks_path) == chunks_path

\* chunks_path.replace("chunks_", "parents_")
ParentsPath(chunks_path) ==
  IF chunks_path # NoPath /\ chunks_path[1] = "chunks"
  THEN <<"parents", chunks_path[2]>> ELSE chunks_path

\* os.path.exists
Exists(path) == path \in DOMAIN files

\* pickle.dump / faiss.write_index, and pickle.load / faiss.read_index
Dump(obj) == <<"bytes", obj>>

Load(bytes) == bytes[2]

\* model.encode of one text: the embedding is a function of the text
Encode(t) == Cardinality({k \in 1..Len(t) : t[k] = "a"})

\* SmartRAG.__init__: the state containers of a new instance
NewSmartRAG ==
  [index |-> NoIndex, child_chunks |-> <<>>, parent_map |-> <<>>,
   faiss_path |-> NoPath, chunks_path |-> NoPath, pc |-> "new",
   via |-> "none"]   \* via: whether load_state took the cache or the disk

NoSmartRAG == [NewSmartRAG EXCEPT !.pc = "none"]

\* get_cached_state: the position of faiss_path in the cache, or 0
CachePos(cache, faiss_path) ==
  IF \E k \in 1..Len(cache) : cache[k][1] = faiss_path
  THEN CHOOSE k \in 1..Len(cache) : cache[k][1] = faiss_path
  ELSE 0

Without(cache, k) == SubSeq(cache, 1, k - 1) \o SubSeq(cache, k + 1, Len(cache))

\* mutant: a cache hit leaves the order of the entries as it is
MoveToEnd_Noop(cache, k) == cache

\* _index_cache.move_to_end(faiss_path)
MoveToEnd(cache, k) == Append(Without(cache, k), cache[k])

\* mutant: nothing is evicted
PutCachedState_NoEvict(cache, faiss_path, data) ==
  LET k == CachePos(cache, faiss_path)
  IN IF k > 0 THEN Append(Without(cache, k), <<faiss_path, data>>)
     ELSE Append(cache, <<faiss_path, data>>)

\* put_cached_state: store as most recent, then evict the oldest
PutCachedState(cache, faiss_path, data) ==
  LET k == CachePos(cache, faiss_path)
      stored == IF k > 0 THEN Append(Without(cache, k), <<faiss_path, data>>)
                ELSE Append(cache, <<faiss_path, data>>)
  IN IF Len(stored) > CACHE_CAPACITY THEN Tail(stored) ELSE stored

\* mutant: the vectors are added in the reverse order of the chunks
Embeddings_Reversed(chunks) ==
  [i \in 1..Len(chunks) |-> Encode(chunks[Len(chunks) + 1 - i].text)]

\* texts = [c.text for c in self.child_chunks]; model.encode(texts):
\* one vector for each child chunk, in the order of the list
Embeddings(chunks) == [i \in 1..Len(chunks) |-> Encode(chunks[i].text)]

\* run_pipeline_task up to the end of index_document, for markdown text t
IndexDocument(d, t) ==
  /\ task_pc[d] = "idle"
  /\ LET r == Process(t, UploadSource, next_uuid)
         chunks == r.out.child_chunks
     IN IF r.raised
        THEN /\ task_pc' = [task_pc EXCEPT ![d] = "error"]
             /\ UNCHANGED <<task_rag, next_uuid>>
        ELSE /\ task_rag' = [task_rag EXCEPT ![d] =
                 [NewSmartRAG EXCEPT
                    !.child_chunks = chunks,
                    !.parent_map = r.out.parent_map,
                    !.index = IF chunks # <<>>
                              THEN FlatIndex(Embeddings(chunks))
                              ELSE NoIndex,
                    !.pc = "indexed"]]
             /\ next_uuid' = r.out.next_id
             /\ task_pc' = [task_pc EXCEPT ![d] = "indexed"]
  /\ UNCHANGED <<documents, files, rag, index_cache>>
  /\ UNCHANGED <<chunkVars, searchVars, mergeVars, extVars>>

\* run_pipeline_task after index_document: add_document_record, save_state
\* (the three files, when there is an index) and update_document_paths
SaveState(d) ==
  /\ task_pc[d] = "indexed"
  /\ LET r == task_rag[d]
     IN IF ~r.index.present
        THEN /\ documents' = [documents EXCEPT ![d] =
                  [in_db |-> TRUE, faiss_index_path |-> NoPath, chunks_path |-> NoPath]]
             /\ UNCHANGED files
        ELSE /\ files' = (FaissPath(d) :> Dump(r.index))
                           @@ (ChunksPath(d) :> Dump(r.child_chunks))
                           @@ (ParentsPathOfDoc(d) :> Dump(r.parent_map))
                           @@ files
             /\ documents' = [documents EXCEPT ![d] =
                  [in_db |-> TRUE, faiss_index_path |-> FaissPath(d),
                   chunks_path |-> ChunksPath(d)]]
  /\ task_pc' = [task_pc EXCEPT ![d] = "completed"]
  /\ UNCHANGED <<task_rag, rag, index_cache, next_uuid>>
  /\ UNCHANGED <<chunkVars, searchVars, mergeVars, extVars>>

\* load_doc of a query for document d on loader p: the existence guard,
\* SmartRAG(), and load_state up to the read of the index and chunk files
LoadBegin(p, d) ==
  /\ rag[p].pc = "none"
  /\ documents[d].faiss_index_path # NoPath
  /\ Exists(documents[d].faiss_index_path)
  /\ LET faiss_path == documents[d].faiss_index_path
         chunks_path == documents[d].chunks_path
         k == CachePos(index_cache, faiss_path)
         fresh == [NewSmartRAG EXCEPT !.faiss_path = faiss_path,
                                      !.chunks_path = chunks_path]
     IN IF k > 0
        THEN /\ index_cache' = MoveToEnd(index_cache, k)
             /\ rag' = [rag EXCEPT ![p] =
                  [fresh EXCEPT !.index = index_cache[k][2][1],
                                !.child_chunks = index_cache[k][2][2],
                                !.parent_map = index_cache[k][2][3],
                                !.pc = "loaded", !.via = "cache"]]
        ELSE /\ UNCHANGED index_cache
             /\ IF ~Exists(faiss_path) \/ ~Exists(chunks_path)
                THEN rag' = [rag EXCEPT ![p] = [fresh EXCEPT !.pc = "failed"]]
                ELSE rag' = [rag EXCEPT ![p] =
                       [fresh EXCEPT !.index = Load(files[faiss_path]),
                                     !.child_chunks = Load(files[chunks_path]),
                                     !.pc = "reading", !.via = "disk"]]
  /\ UNCHANGED <<documents, files, task_pc, task_rag, next_uuid>>
  /\ UNCHANGED <<chunkVars, searchVars, mergeVars, extVars>>

\* mutant: the loaders share one instance, so the tuple takes the index
\* that the first loader read last
CachedTuple_Shared(rags, p) ==
  <<rags[1].index, rags[p].child_chunks, rags[p].parent_map>>

\* (self.index, self.child_chunks, self.parent_map) of the loader's own instance
CachedTuple(rags, p) ==
  <<rags[p].index, rags[p].child_chunks, rags[p].parent_map>>

\* the rest of _load_state_sync (the parents file, when it exists) and
\* put_cached_state
LoadFinish(p) ==
  /\ rag[p].pc = "reading"
  /\ LET parent_path == ParentsPath(rag[p].chunks_path)
         loaded == [rag[p] EXCEPT
                      !.parent_map = IF Exists(parent_path)
                                     THEN Load(files[parent_path]) ELSE @,
                      !.pc = "loaded"]
     IN /\ rag' = [rag EXCEPT ![p] = loaded]
        /\ index_cache' = PutCachedState(index_cache, loaded.faiss_path,
                            CachedTuple([rag EXCEPT ![p] = loaded], p))
  /\ UNCHANGED <<documents, files, task_pc, task_rag, next_uuid>>
  /\ UNCHANGED <<chunkVars, searchVars, mergeVars, extVars>>

\* the query is over: its SmartRAG instance is dropped
EndQuery(p) ==
  /\ rag[p].pc \in {"loaded", "failed"}
  /\ rag' = [rag EXCEPT ![p] = NoSmartRAG]
  /\ UNCHANGED <<documents, files, task_pc, task_rag, index_cache, next_uuid>>
  /\ UNCHANGED <<chunkVars, searchVars, mergeVars, extVars>>

\* delete_document: remove the index, chunk and parents files, then the row
DeleteDocument(d) ==
  /\ documents[d].in_db
  /\ LET gone == {documents[d].faiss_index_path, documents[d].chunks_path,
                  ParentsPath(documents[d].chunks_path)}
     IN files' = [path \in DOMAIN files \ gone |-> files[path]]
  /\ documents' = [documents EXCEPT ![d].in_db = FALSE]
  /\ UNCHANGED <<task_pc, task_rag, rag, index_cache, next_uuid>>
  /\ UNCHANGED <<chunkVars, searchVars, mergeVars, extVars>>

Init ==
  /\ ExtIdle
  /\ ChunkerIdle
  /\ SearchIdle
  /\ MergeIdle
  /\ documents = [d \in Docs |->
       [in_db |-> FALSE, faiss_index_path |-> NoPath, chunks_path |-> NoPath]]
  /\ files = <<>>
  /\ task_pc = [d \in Docs |-> "idle"]
  /\ task_rag = [d \in Docs |-> NoSmartRAG]
  /\ rag = [p \in Loaders |-> NoSmartRAG]
  /\ index_cache = <<>>
  /\ next_uuid = 1

Next ==
  \/ \E d \in Docs, t \in DocTexts : IndexDocument(d, t)
  \/ \E d \in Docs : SaveState(d)
  \/ \E p \in Loaders, d \in Docs : LoadBegin(p, d)
  \/ \E p \in Loaders : LoadFinish(p)
  \/ \E p \in Loaders : EndQuery(p)
  \/ \E d \in Docs : DeleteDocument(d)

Spec == Init /\ [][Next]_vars

\* indexing, saving and concurrent load_state calls, with no deletion
NextLoad ==
  \/ \E d \in Docs, t \in DocTexts : IndexDocument(d, t)
  \/ \E d \in Docs : SaveState(d)
  \/ \E p \in Loaders, d \in Docs : LoadBegin(p, d)
  \/ \E p \in Loaders : LoadFinish(p)
  \/ \E p \in Loaders : EndQuery(p)

SpecLoad == Init /\ [][NextLoad]_vars

\* the SmartRAG instances on which index_document or load_state has returned
ReadyInstances ==
  {task_rag[d] : d \in {x \in Docs : task_rag[x].pc = "indexed"}}
    \cup {rag[p] : p \in {x \in Loaders : rag[x].pc = "loaded"}}

\* C7: on every instance that index_document or load_state has returned
\* on, each child chunk with a parent_id finds it among the keys of the
\* instance's parent map.
C7_ParentIdsResolve ==
  \A r \in ReadyInstances :
    \A k \in 1..Len(r.child_chunks) :
      r.child_chunks[k].parent_id # NoneId
        => r.child_chunks[k].parent_id \in DOMAIN r.parent_map

\* the document whose artifacts a loaded instance was loaded from
DocOf(r) == r.faiss_path[2]

ArtifactsExist(d) ==
  Exists(FaissPath(d)) /\ Exists(ChunksPath(d)) /\ Exists(ParentsPathOfDoc(d))

C13_LoadNeedsAllArtifacts ==
  [][\A p \in Loaders :
       (rag[p].pc = "reading" /\ rag'[p].pc = "loaded") =>
         /\ Exists(rag[p].faiss_path)
         /\ Exists(rag[p].chunks_path)
         /\ Exists(ParentsPath(rag[p].chunks_path))]_vars

C29_CachedTupleOfOneDocument ==
  \A k \in 1..Len(index_cache) :
    LET d == index_cache[k][1][2]
    IN index_cache[k][2] =
         <<task_rag[d].index, task_rag[d].child_chunks, task_rag[d].parent_map>>

\* both loaders have loaded from the disk, each a different document with
\* an index and parents, and the cache holds a tuple for each
C29_Witness ==
  /\ Len(index_cache) = 2
  /\ index_cache[1][1] # index_cache[2][1]
  /\ \A p \in Loaders :
       /\ rag[p].pc = "loaded" /\ rag[p].via = "disk"
       /\ rag[p].index.present
       /\ rag[p].parent_map # <<>>
  /\ rag[1].faiss_path # rag[2].faiss_path
  /\ rag[1].index # rag[2].index

\* ------------------------------------------------------------ LLM client
\* Query and completion text is a sequence of symbols: "a" is a content
\* character, " " is whitespace and "q" stands for the double quote.
QuerySym == {"a", " ", "q"}

Queries == SeqsUpTo(QuerySym, MaxQueryLen)

Completions == SeqsUpTo(QuerySym, MaxCompletionLen)

\* the text of an exception or of a non-200 response body
ErrorTexts == {<<>>, <<"e">>}

\* what the backend does with a request: the call raises, the server
\* answers with a status other than 200, or a completion comes back
BackendOutcomes ==
  {[kind |-> "exception", text |-> e] : e \in ErrorTexts}
    \cup {[kind |-> "status", text |-> e] : e \in ErrorTexts}
    \cup {[kind |-> "ok", text |-> c] : c \in Completions}

Providers == {"groq", "sanctuary"}

\* an error field: None, or a string
NoError == [null |-> TRUE, text |-> <<>>]

ErrorOf(t) == [null |-> FALSE, text |-> t]

LLMResponse(content, error) == [content |-> content, error |-> error]

\* the fixed messages of the clients
GroqNotInitialized == <<"Groq Client not initialized (Missing API Key?)">>

SanctuaryKeyMissing == <<"Sanctuary API Key missing">>

EmptyResponse == <<"Empty response from provider">>

StatusPrefix == <<"Status ">>

\* mutant: the exception of the backend call is not caught
OnException_Reraise(e) == [raised |-> TRUE, resp |-> LLMResponse(<<>>, NoError)]

\* except Exception as e: return LLMResponse(content="", error=str(e))
OnException(e) == [raised |-> FALSE, resp |-> LLMResponse(<<>>, ErrorOf(e))]

Returned(resp) == [raised |-> FALSE, resp |-> resp]

\* GroqClient.generate; the SDK raises on a status other than 200
GroqGenerate(key, outcome) ==
  IF ~key THEN Returned(LLMResponse(<<>>, ErrorOf(GroqNotInitialized)))
  ELSE IF outcome.kind = "ok" THEN Returned(LLMResponse(outcome.text, NoError))
  ELSE OnException(outcome.text)

\* SanctuaryClient.generate
SanctuaryGenerate(key, outcome) ==
  IF ~key THEN Returned(LLMResponse(<<>>, ErrorOf(SanctuaryKeyMissing)))
  ELSE IF outcome.kind = "exception" THEN OnException(outcome.text)
  ELSE IF outcome.kind = "status"
  THEN Returned(LLMResponse(<<>>, ErrorOf(StatusPrefix \o outcome.text)))
  ELSE IF outcome.text = <<>>
  THEN Returned(LLMResponse(<<>>, ErrorOf(EmptyResponse)))
  ELSE Returned(LLMResponse(outcome.text, NoError))

\* get_llm_client().generate
Generate(provider, key, outcome) ==
  IF provider = "groq" THEN GroqGenerate(key, outcome)
  ELSE SanctuaryGenerate(key, outcome)

\* the truth value of an error field
Truthy(error) == ~error.null /\ error.text # <<>>

\* str.replace('"', '')
RemoveQuotes(t) == SelectSeq(t, LAMBDA c : c # "q")

\* original_query[:2000]
Truncate(q) == SubSeq(q, 1, Min(Len(q), MaxRewordLen))

\* BaseLLMClient.reword_query: called tells whether generate was called
RewordQuery(provider, key, outcome, original_query) ==
  IF original_query = <<>> \/ Strip(original_query) = <<>>
  THEN [raised |-> FALSE, called |-> FALSE, resp |-> LLMResponse(<<>>, NoError), out |-> <<>>]
  ELSE LET q == IF Len(original_query) > MaxRewordLen
                THEN Truncate(original_query) ELSE original_query
           g == Generate(provider, key, outcome)
       IN IF g.raised
          THEN [raised |-> TRUE, called |-> TRUE, resp |-> g.resp, out |-> <<>>]
          ELSE IF Truthy(g.resp.error) \/ g.resp.content = <<>>
          THEN [raised |-> FALSE, called |-> TRUE, resp |-> g.resp, out |-> q]
          ELSE [raised |-> FALSE, called |-> TRUE, resp |-> g.resp,
                out |-> RemoveQuotes(Strip(g.resp.content))]

\* SmartRAG.optimize_query(question)
OptimizeQuery ==
  /\ llm_pc = "call"
  /\ LET r == RewordQuery(llm_provider, llm_key, llm_backend, question)
     IN /\ llm_resp' = [called |-> r.called, resp |-> r.resp]
        /\ llm_out' = r.out
        /\ llm_pc' = IF r.raised THEN "reword_raised" ELSE "reworded"
  /\ UNCHANGED <<llm_provider, llm_key, llm_backend, question>>
  /\ UNCHANGED <<coreVars, modelVars, cacheVars, queryVars, pipeVars, mgrVars>>

\* SmartRAG.generate_answer(question, context_chunks, graph_context): the
\* prompt is built from strings and handed to the client's generate
GenerateAnswer ==
  /\ llm_pc = "call"
  /\ LET g == Generate(llm_provider, llm_key, llm_backend)
     IN /\ llm_resp' = [called |-> TRUE, resp |-> g.resp]
        /\ llm_out' = g.resp
        /\ llm_pc' = IF g.raised THEN "answer_raised" ELSE "answered"
  /\ UNCHANGED <<llm_provider, llm_key, llm_backend, question>>
  /\ UNCHANGED <<coreVars, modelVars, cacheVars, queryVars, pipeVars, mgrVars>>

CoreIdle == ChunkerIdle /\ SearchIdle /\ MergeIdle /\ LifeIdle

InitLLM ==
  /\ CoreIdle
  /\ ModelIdle /\ CacheIdle /\ QueryIdle /\ PipeIdle /\ MgrIdle
  /\ llm_provider \in Providers
  /\ llm_key \in BOOLEAN
  /\ llm_backend \in BackendOutcomes
  /\ question \in Queries
  /\ llm_resp = <<>>
  /\ llm_out = <<>>
  /\ llm_pc = "call"

NextLLM == OptimizeQuery \/ GenerateAnswer

SpecLLM == InitLLM /\ [][NextLLM]_vars

\* C14: when the generate call of reword_query gives an error or empty
\* content, optimize_query returns the original query string; and it never
\* returns the empty string for a non-empty original query.
C14_FailOpenReword ==
  llm_pc = "reworded" =>
    /\ (llm_resp.called
          /\ (~llm_resp.resp.error.null \/ llm_resp.resp.content = <<>>))
         => llm_out = question
    /\ question # <<>> => llm_out # <<>>

\* the error field ends with the text the backend gave
CarriesText(error, t) ==
  /\ Len(error.text) >= Len(t)
  /\ SubSeq(error.text, Len(error.text) - Len(t) + 1, Len(error.text)) = t

EmptyCompletion == llm_backend.kind = "ok" /\ llm_backend.text = <<>>

\* the backend outcomes with an error text of their own
BackendError == llm_key /\ llm_backend.kind \in {"exception", "status"}

FailedResponse(resp) == resp.content = <<>> /\ ~resp.error.null

\* C15 as stated: generate_answer never raises, and on every outcome other
\* than a success (missing credentials, exception, status other than 200,
\* empty completion) the LLMResponse has empty content and a non-null
\* error, which carries the error text of the backend.
C15_EveryFailureHasError ==
  /\ llm_pc # "answer_raised"
  /\ llm_pc = "answered" =>
       /\ (~llm_key \/ BackendError \/ EmptyCompletion) => FailedResponse(llm_out)
       /\ BackendError => CarriesText(llm_out.error, llm_backend.text)

\* C15, amended: generate_answer never raises and returns the LLMResponse
\* of the client; on missing credentials, an exception, a status other
\* than 200, and for SanctuaryClient an empty completion, it has empty
\* content and a non-null error, which carries the error text of the
\* backend; GroqClient returns an empty completion with a null error.
C15_ClientFailureHasError ==
  /\ llm_pc # "answer_raised"
  /\ llm_pc = "answered" =>
       /\ llm_out = llm_resp.resp
       /\ (~llm_key \/ BackendError
             \/ (llm_provider = "sanctuary" /\ EmptyCompletion))
            => FailedResponse(llm_out)
       /\ BackendError => CarriesText(llm_out.error, llm_backend.text)
       /\ (llm_provider = "groq" /\ llm_key /\ EmptyCompletion)
            => llm_out = LLMResponse(<<>>, NoError)

\* generate_answer has returned the response of a request that the server
\* answered with a status other than 200 and a body
C15_Witness ==
  /\ llm_pc = "answered"
  /\ llm_provider = "sanctuary" /\ llm_key
  /\ llm_backend = [kind |-> "status", text |-> <<"e">>]
  /\ llm_out.error.text = StatusPrefix \o <<"e">>

\* ------------------------------------------- get_embedding_model (singleton)
Threads == 1..MaxThreads

\* mutant: the test under the lock is left out
SecondCheck_Skipped(model) == TRUE

\* the test under the lock: if _embedding_model is None
SecondCheck(model) == model = 0

\* a thread calls get_embedding_model
ModelCall(t) ==
  /\ model_pc[t] = "idle"
  /\ model_pc' = [model_pc EXCEPT ![t] = "check"]
  /\ UNCHANGED <<embedding_model, model_lock, model_ret, constructed>>
  /\ UNCHANGED <<coreVars, llmVars, cacheVars, queryVars, pipeVars, mgrVars>>

\* if _embedding_model is None, outside the lock
ModelFirstCheck(t) ==
  /\ model_pc[t] = "check"
  /\ model_pc' = [model_pc EXCEPT ![t] = IF embedding_model = 0 THEN "acquire" ELSE "return"]
  /\ UNCHANGED <<embedding_model, model_lock, model_ret, constructed>>
  /\ UNCHANGED <<coreVars, llmVars, cacheVars, queryVars, pipeVars, mgrVars>>

\* with _model_lock: entered when the lock is free
ModelAcquire(t) ==
  /\ model_pc[t] = "acquire"
  /\ model_lock = 0
  /\ model_lock' = t
  /\ model_pc' = [model_pc EXCEPT ![t] = "locked"]
  /\ UNCHANGED <<embedding_model, model_ret, constructed>>
  /\ UNCHANGED <<coreVars, llmVars, cacheVars, queryVars, pipeVars, mgrVars>>

\* under the lock: the second test, and SentenceTransformer(...) when it
\* passes; ok tells whether the constructor returns or raises
ModelConstruct(t, ok) ==
  /\ model_pc[t] = "locked"
  /\ IF SecondCheck(embedding_model)
     THEN IF ok
          THEN /\ embedding_model' = constructed + 1
               /\ constructed' = constructed + 1
               /\ model_pc' = [model_pc EXCEPT ![t] = "release"]
          ELSE /\ model_pc' = [model_pc EXCEPT ![t] = "unwind"]
               /\ UNCHANGED <<embedding_model, constructed>>
     ELSE /\ model_pc' = [model_pc EXCEPT ![t] = "release"]
          /\ UNCHANGED <<embedding_model, constructed>>
  /\ UNCHANGED <<model_lock, model_ret>>
  /\ UNCHANGED <<coreVars, llmVars, cacheVars, queryVars, pipeVars, mgrVars>>

\* the end of the with block: the lock is released, on return and on raise
ModelRelease(t) ==
  /\ model_pc[t] \in {"release", "unwind"}
  /\ model_lock' = 0
  /\ model_pc' = [model_pc EXCEPT ![t] = IF model_pc[t] = "release" THEN "return" ELSE "raised"]
  /\ UNCHANGED <<embedding_model, model_ret, constructed>>
  /\ UNCHANGED <<coreVars, llmVars, cacheVars, queryVars, pipeVars, mgrVars>>

\* return _embedding_model
ModelReturn(t) ==
  /\ model_pc[t] = "return"
  /\ model_ret' = [model_ret EXCEPT ![t] = embedding_model]
  /\ model_pc' = [model_pc EXCEPT ![t] = "returned"]
  /\ UNCHANGED <<embedding_model, model_lock, constructed>>
  /\ UNCHANGED <<coreVars, llmVars, cacheVars, queryVars, pipeVars, mgrVars>>

InitModel ==
  /\ CoreIdle
  /\ LLMIdle /\ CacheIdle /\ QueryIdle /\ PipeIdle /\ MgrIdle
  /\ embedding_model = 0
  /\ model_lock = 0
  /\ model_pc = [t \in Threads |-> "idle"]
  /\ model_ret = [t \in Threads |-> 0]
  /\ constructed = 0

NextModel ==
  \E t \in Threads :
    \/ ModelCall(t)
    \/ ModelFirstCheck(t)
    \/ ModelAcquire(t)
    \/ \E ok \in BOOLEAN : ModelConstruct(t, ok)
    \/ ModelRelease(t)
    \/ ModelReturn(t)

SpecModel == InitModel /\ [][NextModel]_vars

\* C16: under every interleaving of get_embedding_model calls the model is
\* constructed at most once, and every call that returns gives that one
\* instance, never None.
C16_ConstructedOnce ==
  /\ constructed <= 1
  /\ \A t \in Threads :
       model_pc[t] = "returned" => model_ret[t] # 0 /\ model_ret[t] = embedding_model
  /\ \A t1, t2 \in Threads :
       (model_pc[t1] = "returned" /\ model_pc[t2] = "returned")
         => model_ret[t1] = model_ret[t2]

\* one thread has its result while another, which saw None before the
\* lock, holds the lock and finds the model built
C16_Witness ==
  \E t1, t2 \in Threads :
    /\ model_pc[t1] = "returned" /\ model_ret[t1] = 1
    /\ model_pc[t2] = "locked" /\ model_lock = t2
    /\ embedding_model = 1

\* ------------------------------------- get_cached_state / put_cached_state
CacheThreads == 1..MaxCacheThreads

\* one path more than the cache holds
CachePaths == {FaissPath(d) : d \in 1..(CACHE_CAPACITY + 1)}

\* the (index, child_chunks, parent_map) tuples handed to put_cached_state
CacheData == {<<FlatIndex(<<v>>), <<>>, <<>>>> : v \in 0..1}

NoCall == [op |-> "none", path |-> NoPath, data |-> <<>>, ret |-> <<>>]

\* the paths by last use: p becomes the latest
Touch(order, p) == Append(SelectSeq(order, LAMBDA x : x # p), p)

\* a thread calls get_cached_state(path) or put_cached_state(path, data)
CacheCall(t, op, path, data) ==
  /\ cache_pc[t] = "idle"
  /\ cache_call' = [cache_call EXCEPT ![t] =
       [op |-> op, path |-> path, data |-> IF op = "put" THEN data ELSE <<>>,
        ret |-> <<>>]]
  /\ cache_pc' = [cache_pc EXCEPT ![t] = "acquire"]
  /\ UNCHANGED <<cache_lock, use_order, lifeVars>>
  /\ UNCHANGED <<chunkVars, searchVars, mergeVars, llmVars, modelVars, queryVars, pipeVars, mgrVars>>

\* with _cache_lock: entered when the lock is free
CacheAcquire(t) ==
  /\ cache_pc[t] = "acquire"
  /\ cache_lock = 0
  /\ cache_lock' = t
  /\ cache_pc' = [cache_pc EXCEPT ![t] = "locked"]
  /\ UNCHANGED <<cache_call, use_order, lifeVars>>
  /\ UNCHANGED <<chunkVars, searchVars, mergeVars, llmVars, modelVars, queryVars, pipeVars, mgrVars>>

\* the body of get_cached_state or of put_cached_state, under the lock
CacheBody(t) ==
  /\ cache_pc[t] = "locked"
  /\ LET c == cache_call[t]
         k == CachePos(index_cache, c.path)
     IN IF c.op = "get"
        THEN IF k > 0
             THEN /\ index_cache' = MoveToEnd(index_cache, k)
                  /\ cache_call' = [cache_call EXCEPT ![t].ret = index_cache[k][2]]
                  /\ use_order' = Touch(use_order, c.path)
             ELSE UNCHANGED <<index_cache, cache_call, use_order>>
        ELSE /\ index_cache' = PutCachedState(index_cache, c.path, c.data)
             /\ use_order' = Touch(use_order, c.path)
             /\ UNCHANGED cache_call
  /\ cache_pc' = [cache_pc EXCEPT ![t] = "release"]
  /\ UNCHANGED <<cache_lock, documents, files, task_pc, task_rag, rag, next_uuid>>
  /\ UNCHANGED <<chunkVars, searchVars, mergeVars, llmVars, modelVars, queryVars, pipeVars, mgrVars>>

\* the end of the with block, and the return
CacheRelease(t) ==
  /\ cache_pc[t] = "release"
  /\ cache_lock' = 0
  /\ cache_pc' = [cache_pc EXCEPT ![t] = "idle"]
  /\ UNCHANGED <<cache_call, use_order, lifeVars>>
  /\ UNCHANGED <<chunkVars, searchVars, mergeVars, llmVars, modelVars, queryVars, pipeVars, mgrVars>>

InitCache ==
  /\ CoreIdle
  /\ LLMIdle /\ ModelIdle /\ QueryIdle /\ PipeIdle /\ MgrIdle
  /\ cache_lock = 0
  /\ cache_pc = [t \in CacheThreads |-> "idle"]
  /\ cache_call = [t \in CacheThreads |-> NoCall]
  /\ use_order = <<>>

NextCache ==
  \E t \in CacheThreads :
    \/ \E op \in {"get", "put"}, path \in CachePaths, data \in CacheData :
         CacheCall(t, op, path, data)
    \/ CacheAcquire(t)
    \/ CacheBody(t)
    \/ CacheRelease(t)

SpecCache == InitCache /\ [][NextCache]_vars

CachedPaths(cache) == {cache[k][1] : k \in 1..Len(cache)}

\* C17: after every interleaving of get_cached_state and put_cached_state
\* calls the cache holds at most CACHE_CAPACITY entries, and no two of
\* them under the same faiss path.
C17_CacheBounded ==
  /\ Len(index_cache) <= CACHE_CAPACITY
  /\ \A i, j \in 1..Len(index_cache) :
       index_cache[i][1] = index_cache[j][1] => i = j

\* the cache is full after an eviction, with one thread past its body and
\* another waiting for the lock
C17_Witness ==
  /\ Len(index_cache) = CACHE_CAPACITY
  /\ \E k \in 1..Len(use_order) : use_order[k] \notin CachedPaths(index_cache)
  /\ \E t1, t2 \in CacheThreads :
       cache_pc[t1] = "release" /\ cache_pc[t2] = "acquire"

\* the cached path whose last use (hit of a get, or put) is the oldest
LruPath(cache, order) ==
  LET first == CHOOSE k \in 1..Len(order) :
                 /\ order[k] \in CachedPaths(cache)
                 /\ \A j \in 1..(k - 1) : order[j] \notin CachedPaths(cache)
  IN order[first]

\* C18: a put of a path that is not cached into a full cache evicts
\* exactly the least recently used path, where the hit of a get and a put
\* both count as a use; a put of a cached path evicts nothing, and so
\* does a put into a cache that is not full.
C18_EvictsLeastRecentlyUsed ==
  [][\A t \in CacheThreads :
       (cache_pc[t] = "locked" /\ cache_pc'[t] = "release"
          /\ cache_call[t].op = "put") =>
         LET path == cache_call[t].path
             before == CachedPaths(index_cache)
             after == CachedPaths(index_cache')
         IN IF path \in before THEN after = before
            ELSE IF Len(index_cache) = CACHE_CAPACITY
            THEN after = (before \ {LruPath(index_cache, use_order)}) \cup {path}
            ELSE after = before \cup {path}]_vars

\* a put has just evicted a path while the path that a get had hit, and
\* that was put before the evicted one, is still cached
C18_Witness ==
  \E t1, t2 \in CacheThreads :
    /\ Len(index_cache) = CACHE_CAPACITY
    /\ cache_call[t1].op = "get" /\ cache_call[t1].ret # <<>>
    /\ cache_call[t1].path = index_cache[1][1]
    /\ cache_pc[t2] = "release" /\ cache_call[t2].op = "put"
    /\ cache_call[t2].path = index_cache[Len(index_cache)][1]
    /\ Len(use_order) > CACHE_CAPACITY
    /\ use_order[1] \notin CachedPaths(index_cache)

\* -------------------------------------------- query_collection.generate()
\* What a document of the collection is like when the query loads it:
\*   "ok"        the row has its paths and the files are in place
\*   "no_path"   the row has an empty faiss_index_path (nothing was indexed)
\*   "no_faiss"  the index file is absent when load_doc tests for it
\*   "vanished"  the files are removed after load_doc's test (delete_document)
\*   "corrupt"   faiss.read_index or pickle.load raises on the file
ArtifactStates == {"ok", "no_path", "no_faiss", "vanished", "corrupt"}

\* what search(search_query, top_k=3) of a loaded document does: it
\* returns a sorted hit list, or it raises
SearchOutcomes(d) ==
  {[raises |-> FALSE, hits |-> h] :
     h \in {x \in SearchResults(d) : Len(x) <= MaxQueryHits /\ SortedHits(x)}}
    \cup {[raises |-> TRUE, hits |-> <<>>]}

QueryDocs(d) ==
  [artifact : ArtifactStates, cached : BOOLEAN, search : SearchOutcomes(d)]

\* SmartRAG.load_state as load_doc calls it, past load_doc's own test
LoadStateOutcome(doc) ==
  IF doc.cached THEN "loaded"
  ELSE IF doc.artifact = "vanished" THEN "raised"   \* FileNotFoundError
  ELSE IF doc.artifact = "corrupt" THEN "raised"
  ELSE "loaded"

\* mutant: load_doc lets the exception of load_state through
LoadDocExcept_Propagates(outcome) == outcome

\* except Exception as e: logger.error(...), then return None
LoadDocExcept(outcome) == IF outcome = "raised" THEN "none" ELSE outcome

\* load_doc(doc): a SmartRAG, or None
LoadDocOutcome(doc) ==
  IF doc.artifact # "no_path" /\ doc.artifact # "no_faiss"
  THEN LoadDocExcept(LoadStateOutcome(doc))
  ELSE "none"

NotSearched == [state |-> "pending", hits |-> <<>>]

\* the lines generate() ends with
NoDocumentsLine == [kind |-> "no_documents", results |-> <<>>, graph |-> <<>>, error |-> ""]

ErrorLoadingLine == [kind |-> "error_loading", results |-> <<>>, graph |-> <<>>, error |-> ""]

ErrorLine(e) == [kind |-> "error", results |-> <<>>, graph |-> <<>>, error |-> e]

AnswerLine(res) == [kind |-> "answer", results |-> res, graph |-> <<>>, error |-> ""]

\* graph_context = "" and graph_results_raw = []
EmptyGraph == [context |-> "", raw |-> <<>>]

\* the knowledge-graph step has not run
NoGraph == [kind |-> "none", context |-> "", raw |-> <<>>]

NoCalls == [llm |-> 0, records |-> 0, lines |-> 0, answer |-> <<>>]

\* one more result line is yielded
OneLine(c) == [c EXCEPT !.lines = @ + 1]

\* docs = db.get_collection_documents(...), and the reply for no documents
QueryStart ==
  /\ q_pc = "start"
  /\ IF q_docs = <<>>
     THEN /\ q_result' = NoDocumentsLine
          /\ q_calls' = OneLine(q_calls)
          /\ q_pc' = "done"
     ELSE q_pc' = "loading" /\ UNCHANGED <<q_result, q_calls>>
  /\ UNCHANGED <<q_docs, q_pipes, q_hits, q_top, q_graph>>
  /\ UNCHANGED <<coreVars, llmVars, modelVars, cacheVars, pipeVars, mgrVars>>

\* one load_doc of the gather
LoadDoc(d) ==
  /\ q_pc = "loading"
  /\ d \in DOMAIN q_docs
  /\ q_pipes[d] = "pending"
  /\ q_pipes' = [q_pipes EXCEPT ![d] = LoadDocOutcome(q_docs[d])]
  /\ UNCHANGED <<q_docs, q_hits, q_top, q_result, q_pc, q_graph, q_calls>>
  /\ UNCHANGED <<coreVars, llmVars, modelVars, cacheVars, pipeVars, mgrVars>>

\* mutant: the query goes on without a pipeline
NoPipelines_Skipped(pipes) == FALSE

\* if not pipelines:
NoPipelines(pipes) == pipes = <<>>

\* the documents whose load_doc gave a SmartRAG, in the order of docs
Pipelines == SelectSeq([d \in 1..Len(q_docs) |-> d], LAMBDA d : q_pipes[d] = "loaded")

\* the gather of the load_doc calls is over: pipelines, the reply for no
\* pipeline, and optimize_query (which returns a string on every outcome)
LoadGather ==
  /\ q_pc = "loading"
  /\ \A d \in DOMAIN q_docs : q_pipes[d] # "pending"
  /\ IF \E d \in DOMAIN q_docs : q_pipes[d] = "raised"
     THEN /\ q_result' = ErrorLine("load")
          /\ q_calls' = OneLine(q_calls)
          /\ q_pc' = "done"
     ELSE IF NoPipelines(Pipelines)
     THEN /\ q_result' = ErrorLoadingLine
          /\ q_calls' = OneLine(q_calls)
          /\ q_pc' = "done"
     ELSE /\ q_calls' = [q_calls EXCEPT !.llm = @ + 1]
          /\ q_pc' = "searching"
          /\ UNCHANGED q_result
  /\ UNCHANGED <<q_docs, q_pipes, q_hits, q_top, q_graph>>
  /\ UNCHANGED <<coreVars, llmVars, modelVars, cacheVars, pipeVars, mgrVars>>

\* one search_pipeline of the gather
SearchPipeline(d) ==
  /\ q_pc = "searching"
  /\ d \in DOMAIN q_docs
  /\ q_pipes[d] = "loaded"
  /\ q_hits[d].state = "pending"
  /\ q_hits' = [q_hits EXCEPT ![d] =
       IF q_docs[d].search.raises THEN [state |-> "raised", hits |-> <<>>]
       ELSE [state |-> "returned", hits |-> q_docs[d].search.hits]]
  /\ UNCHANGED <<q_docs, q_pipes, q_top, q_result, q_pc, q_graph, q_calls>>
  /\ UNCHANGED <<coreVars, llmVars, modelVars, cacheVars, pipeVars, mgrVars>>

\* asyncio.gather of the searches without return_exceptions: the first
\* exception leaves generate()'s try block for its except clause
SearchGatherRaises ==
  /\ q_pc = "searching"
  /\ \E d \in DOMAIN q_docs : q_hits[d].state = "raised"
  /\ q_result' = ErrorLine("search")
  /\ q_calls' = OneLine(q_calls)
  /\ q_pc' = "done"
  /\ UNCHANGED <<q_docs, q_pipes, q_hits, q_top, q_graph>>
  /\ UNCHANGED <<coreVars, llmVars, modelVars, cacheVars, pipeVars, mgrVars>>

\* the gather returns results_list: extend, sort, cut
SearchGatherReturns ==
  /\ q_pc = "searching"
  /\ \A k \in 1..Len(Pipelines) : q_hits[Pipelines[k]].state = "returned"
  /\ q_top' = TopResults([k \in 1..Len(Pipelines) |-> q_hits[Pipelines[k]].hits])
  /\ q_pc' = "graph"
  /\ UNCHANGED <<q_docs, q_pipes, q_hits, q_result, q_graph, q_calls>>
  /\ UNCHANGED <<coreVars, llmVars, modelVars, cacheVars, pipeVars, mgrVars>>

\* what the knowledge-graph step meets: EPHEMERAL_MODE skips it, the post
\* raises (service unreachable, timeout), the status is not 200, the body
\* is not JSON, or a context and raw relations come back
GraphOutcomes ==
  {[kind |-> k, context |-> "", raw |-> <<>>] :
     k \in {"ephemeral", "unreachable", "timeout", "status", "bad_json"}}
    \cup {[kind |-> "ok", context |-> "", raw |-> <<>>],
          [kind |-> "ok", context |-> "graph context",
           raw |-> <<[source |-> "s", rel |-> "r", target |-> "t"]>>]}

\* mutant: an exception of the knowledge-graph call is not caught
GraphExcept_Propagates(o) ==
  [raised |-> o.kind \in {"unreachable", "timeout", "bad_json"},
   graph |-> [context |-> o.context, raw |-> o.raw]]

\* try: ... except Exception as e: logger.error("KG Search failed")
GraphExcept(o) ==
  [raised |-> FALSE,
   graph |-> IF o.kind = "ok" THEN [context |-> o.context, raw |-> o.raw] ELSE EmptyGraph]

\* the knowledge-graph step of generate()
KnowledgeGraph(o) ==
  /\ q_pc = "graph"
  /\ LET g == GraphExcept(o)
     IN IF g.raised
        THEN /\ q_result' = ErrorLine("graph")
             /\ q_calls' = OneLine(q_calls)
             /\ q_pc' = "done"
             /\ q_graph' = [kind |-> o.kind, context |-> "", raw |-> <<>>]
        ELSE /\ q_graph' = [kind |-> o.kind, context |-> g.graph.context,
                            raw |-> g.graph.raw]
             /\ q_pc' = "answering"
             /\ UNCHANGED <<q_result, q_calls>>
  /\ UNCHANGED <<q_docs, q_pipes, q_hits, q_top>>
  /\ UNCHANGED <<coreVars, llmVars, modelVars, cacheVars, pipeVars, mgrVars>>

\* generate_answer (an LLMResponse on every outcome), add_query_record,
\* which stores or raises, and the result line
QueryAnswer(db_ok) ==
  /\ q_pc = "answering"
  /\ LET called == [q_calls EXCEPT
                      !.llm = @ + 1,
                      !.answer = [hits |-> q_top, graph_context |-> q_graph.context]]
     IN IF db_ok
        THEN /\ q_result' = [AnswerLine(q_top) EXCEPT !.graph = q_graph.raw]
             /\ q_calls' = OneLine([called EXCEPT !.records = @ + 1])
        ELSE /\ q_result' = ErrorLine("db")
             /\ q_calls' = OneLine(called)
  /\ q_pc' = "done"
  /\ UNCHANGED <<q_docs, q_pipes, q_hits, q_top, q_graph>>
  /\ UNCHANGED <<coreVars, llmVars, modelVars, cacheVars, pipeVars, mgrVars>>

\* the rows get_collection_documents may return for a collection of n documents
RECURSIVE DocLists(_)
DocLists(n) ==
  IF n = 0 THEN {<<>>}
  ELSE LET rows == QueryDocs(n)
       IN {Append(ds, row) : ds \in DocLists(n - 1), row \in rows}

InitQuery ==
  /\ CoreIdle
  /\ LLMIdle /\ ModelIdle /\ CacheIdle /\ PipeIdle /\ MgrIdle
  /\ \E n \in 0..MaxQueryDocs :
       /\ q_docs \in DocLists(n)
       /\ q_pipes = [d \in 1..n |-> "pending"]
       /\ q_hits = [d \in 1..n |-> NotSearched]
  /\ q_top = <<>>
  /\ q_result = <<>>
  /\ q_pc = "start"
  /\ q_graph = NoGraph
  /\ q_calls = NoCalls

NextQuery ==
  \/ QueryStart
  \/ \E d \in 1..MaxQueryDocs : LoadDoc(d)
  \/ LoadGather
  \/ \E d \in 1..MaxQueryDocs : SearchPipeline(d)
  \/ SearchGatherRaises
  \/ SearchGatherReturns
  \/ \E o \in GraphOutcomes : KnowledgeGraph(o)
  \/ \E db_ok \in BOOLEAN : QueryAnswer(db_ok)

SpecQuery == InitQuery /\ [][NextQuery]_vars

\* the index or chunk file of the document is missing, or fails to load,
\* and the cache does not hold the document
LoadFails(doc) ==
  \/ doc.artifact \in {"no_path", "no_faiss"}
  \/ doc.artifact \in {"vanished", "corrupt"} /\ ~doc.cached

\* the documents that load, in the order of docs
LoadingDocs == SelectSeq([d \in 1..Len(q_docs) |-> d], LAMBDA d : ~LoadFails(q_docs[d]))

\* C19: once the loads of a collection query are over, a document whose
\* index artifacts are missing or fail to load is not among the pipelines
\* and is never searched, and no load failure ends the query; every
\* document that loads is a pipeline, and when the searches return, each of
\* them was searched and the results are the merge of their hits.
C19_FailedLoadExcluded ==
  q_pc \in {"searching", "graph", "answering", "done"} /\ q_docs # <<>> =>
    /\ \A d \in DOMAIN q_docs :
         IF LoadFails(q_docs[d])
         THEN q_pipes[d] = "none" /\ q_hits[d] = NotSearched
         ELSE q_pipes[d] = "loaded"
    /\ q_pc = "done" /\ q_result.kind = "error" => q_result.error # "load"
    /\ q_pc = "done" /\ q_result.kind = "error_loading" => LoadingDocs = <<>>
    /\ (q_pc \in {"graph", "answering"} \/ (q_pc = "done" /\ q_result.kind = "answer")) =>
         /\ \A d \in DOMAIN q_docs :
              ~LoadFails(q_docs[d]) => q_hits[d].state = "returned"
         /\ q_top = TopResults([k \in 1..Len(LoadingDocs) |->
                                  q_docs[LoadingDocs[k]].search.hits])
    /\ q_pc = "done" /\ q_result.kind = "answer" => q_result.results = q_top

\* the query has answered with the hits of one document while the files
\* of the other one were gone at load time
C19_Witness ==
  /\ q_pc = "done" /\ q_result.kind = "answer"
  /\ Len(q_docs) = 2
  /\ q_docs[1].artifact = "vanished" /\ ~q_docs[1].cached
  /\ q_docs[2].artifact = "ok"
  /\ q_pipes[1] = "none"
  /\ Len(q_hits[2].hits) = MaxQueryHits
  /\ q_result.results = q_hits[2].hits

\* C20: when the search of a loaded document raises, that document is
\* skipped and the query ends with the merged results of the documents
\* whose search returned, and an answer.
C20_FailedSearchSkipped ==
  (q_pc = "done" /\ \E d \in DOMAIN q_docs :
                       q_pipes[d] = "loaded" /\ q_docs[d].search.raises) =>
    /\ q_result.kind = "answer"
    /\ q_result.results =
         TopResults([k \in 1..Len(Pipelines) |->
                       IF q_docs[Pipelines[k]].search.raises THEN <<>>
                       ELSE q_docs[Pipelines[k]].search.hits])

\* ------------------------------------------- empty-result conditions
\* a collection query beside a search of one instance
InitQuerySearch == InitQuery \/ InitSearch

NextQuerySearch == NextQuery \/ NextSearch

SpecQuerySearch == InitQuerySearch /\ [][NextQuerySearch]_vars

\* C21: a collection query with no documents, or with no document that
\* loads, ends with one result line that carries the no-data response and
\* no results, with no error, no LLM call and no query record; a search of
\* an instance with no index or no chunks returns the empty list.
C21_EmptyResults ==
  /\ (q_pc = "done" /\ LoadingDocs = <<>>) =>
       /\ q_result.kind = IF q_docs = <<>> THEN "no_documents" ELSE "error_loading"
       /\ q_result.results = <<>>
       /\ q_result.error = ""
       /\ q_calls = [NoCalls EXCEPT !.lines = 1]
  /\ (search_pc = "returned" /\ (~self_index.present \/ self_child_chunks = <<>>)) =>
       results = <<>>

\* a query over two documents of which none loads has ended
C21_Witness ==
  /\ q_pc = "done"
  /\ Len(q_docs) = 2
  /\ LoadingDocs = <<>>
  /\ q_result = ErrorLoadingLine
  /\ q_calls.lines = 1

\* ---------------------------------------- knowledge-graph failures
\* the knowledge-graph service was unreachable, timed out or answered with
\* a status other than 200
GraphUnavailable == q_graph.kind \in {"unreachable", "timeout", "status"}

\* C24: a collection query whose knowledge-graph call fails (service
\* unreachable, timeout, status other than 200) calls generate_answer with
\* the merged vector hits and an empty graph context, and its result line
\* carries the vector results and no graph result, unless storing the
\* query record fails.
C24_VectorOnlyAnswer ==
  (q_pc = "done" /\ GraphUnavailable) =>
    /\ q_calls.answer = [hits |-> q_top, graph_context |-> ""]
    /\ q_calls.lines = 1
    /\ IF q_calls.records = 1
       THEN q_result = AnswerLine(q_top)
       ELSE q_result = ErrorLine("db")

\* a query whose knowledge-graph call timed out has answered with the
\* hits of its two documents
C24_Witness ==
  /\ q_pc = "done"
  /\ q_graph.kind = "timeout"
  /\ Len(Pipelines) = 2
  /\ Len(q_top) >= 2
  /\ q_result = AnswerLine(q_top)
  /\ q_calls.answer = [hits |-> q_top, graph_context |-> ""]

\* ------------------------------------------------ document pipeline task
\* POST /process and run_pipeline_task for the documents of one collection.
\* Markdown is a sequence of tokens: "a" is parsed content, "C1", "C2" are
\* chart placeholders, "V" heads a visual analysis, "T" heads the audio
\* transcript, "d" is a text a service returned and "u" is the text that
\* stands for an unavailable service.
Requests == 1..MaxRequests

Placeholders == <<"C1", "C2", "C3">>

OversizedMarkdown == [i \in 1..(MAX_DOCUMENT_SIZE_CHARS + 1) |-> "a"]

\* what ExternalServices.parse_document meets: a failure (RuntimeError), or
\* a result with text, images and an audio path; with or without progress
\* lines on the way
ParseOutcomes ==
  {[ok |-> FALSE, progress |-> p, text |-> <<>>, images |-> 0, audio |-> FALSE] :
     p \in BOOLEAN}
    \cup {[ok |-> TRUE, progress |-> p, text |-> t, images |-> 0, audio |-> FALSE] :
            p \in BOOLEAN, t \in {<<>>, OversizedMarkdown}}
    \cup {[ok |-> TRUE, progress |-> p,
           text |-> <<"a">> \o SubSeq(Placeholders, 1, n),
           images |-> n, audio |-> a] :
            p \in BOOLEAN, n \in 0..MaxImages, a \in BOOLEAN}

\* what a post to the vision service meets
ServiceReplies == {"ok", "unreachable", "timeout", "http_error"}

\* the text that stands for a service that failed:
\* "Image analysis unavailable: ..." and "Audio transcription unavailable: ..."
Unavailable == <<"u">>

\* mutant: the exception of the post leaves analyze_image
AnalyzeImage_Raises(reply) == [raised |-> reply # "ok", text |-> <<"d">>]

\* ExternalServices.analyze_image: the description, or the text
\* "Image analysis unavailable: ..." on a RequestException
AnalyzeImage(reply) ==
  [raised |-> FALSE, text |-> IF reply = "ok" THEN <<"d">> ELSE Unavailable]

\* ExternalServices.transcribe_audio: the text, or the text
\* "Audio transcription unavailable: ..." on a RequestException
TranscribeAudio(reply) ==
  [raised |-> FALSE, text |-> IF reply = "ok" THEN <<"d">> ELSE Unavailable]

\* markdown_text.replace(placeholder, replacement)
RECURSIVE ReplaceToken(_, _, _)
ReplaceToken(md, tok, repl) ==
  IF md = <<>> THEN <<>>
  ELSE (IF Head(md) = tok THEN repl ELSE <<Head(md)>>)
         \o ReplaceToken(Tail(md), tok, repl)

\* a coroutine that was not scheduled
NoTask ==
  [pc |-> "none", markdown |-> <<>>, images |-> 0, analyzed |-> 0,
   audio |-> FALSE, replies |-> <<>>,
   child_chunks |-> <<>>, parent_map |-> <<>>, index |-> NoIndex,
   doc_id |-> 0,     \* the id add_document_record returned
   row |-> 0,        \* the id of the row this task inserted
   wrote |-> {},     \* the ids whose row or files this task wrote after the insert
   stage |-> "none"] \* the stage that raised

\* a row of the documents table; it is seen by other transactions once committed
DocumentRow(task, committed) ==
  [task |-> task, committed |-> committed,
   faiss_index_path |-> NoPath, chunks_path |-> NoPath]

NoFiles == [faiss |-> <<>>, chunks |-> <<>>, parents |-> <<>>]

\* the document that is in the collection before the requests: its row and
\* its three files
SiblingChunks == Process(<<"a">>, UploadSource, 1).out

SiblingRow ==
  [task |-> 0, committed |-> TRUE,
   faiss_index_path |-> FaissPath(1), chunks_path |-> ChunksPath(1)]

SiblingFiles ==
  [faiss |-> Dump(FlatIndex(Embeddings(SiblingChunks.child_chunks))),
   chunks |-> Dump(SiblingChunks.child_chunks),
   parents |-> Dump(SiblingChunks.parent_map)]

\* no other coroutine runs between two statements of a coroutine that have
\* no await between them: final_check and delete_job_status
LoopFree(t) == \A u \in DOMAIN pipe_task \ {t} : pipe_task[u].pc # "cleanup_checked"

Raise(task, stage) == [task EXCEPT !.pc = "raising", !.stage = stage]

\* process_document up to the test of the job status: 404 for a missing
\* file, already_queued for a queued or processing job
ProcessCheck(r, file_exists) ==
  /\ r \in DOMAIN proc_req
  /\ proc_req[r].pc = "start"
  /\ proc_req' = [proc_req EXCEPT ![r] =
       IF ~file_exists THEN [pc |-> "not_found", seen |-> "none"]
       ELSE IF job_status \in {"queued", "processing"}
       THEN [pc |-> "already_queued", seen |-> job_status]
       ELSE [pc |-> "checked", seen |-> job_status]]
  /\ UNCHANGED <<ephemeral, job_status, pipe_task, doc_table, disk>>
  /\ UNCHANGED <<coreVars, llmVars, modelVars, cacheVars, queryVars, mgrVars>>

\* process_document from upsert_job_status('queued') to add_task
ProcessQueue(r) ==
  /\ r \in DOMAIN proc_req
  /\ proc_req[r].pc = "checked"
  /\ job_status' = "queued"
  /\ pipe_task' = [pipe_task EXCEPT ![r] = [NoTask EXCEPT !.pc = "scheduled"]]
  /\ proc_req' = [proc_req EXCEPT ![r].pc = "queued"]
  /\ UNCHANGED <<ephemeral, doc_table, disk>>
  /\ UNCHANGED <<coreVars, llmVars, modelVars, cacheVars, queryVars, mgrVars>>

\* run_pipeline_task: update_status("parsing", ...)
TaskStart(t) ==
  /\ t \in DOMAIN pipe_task
  /\ pipe_task[t].pc = "scheduled"
  /\ LoopFree(t)
  /\ job_status' = "processing"
  /\ pipe_task' = [pipe_task EXCEPT ![t].pc = "parsing"]
  /\ UNCHANGED <<ephemeral, proc_req, doc_table, disk>>
  /\ UNCHANGED <<coreVars, llmVars, modelVars, cacheVars, queryVars, mgrVars>>

\* where index_document goes after the images
AfterVision(task) ==
  IF task.analyzed < task.images THEN "vision"
  ELSE IF task.audio THEN "audio"
  ELSE "chunking"

\* parse_document in its thread; a progress line calls update_status there
ParseDocument(t, o) ==
  /\ t \in DOMAIN pipe_task
  /\ pipe_task[t].pc = "parsing"
  /\ job_status' = IF o.progress THEN "processing" ELSE job_status
  /\ pipe_task' = [pipe_task EXCEPT ![t] =
       IF ~o.ok THEN Raise(@, "parse")
       ELSE LET parsed == [@ EXCEPT !.markdown = o.text, !.images = o.images,
                                    !.audio = o.audio]
            IN [parsed EXCEPT !.pc = AfterVision(parsed)]]
  /\ UNCHANGED <<ephemeral, proc_req, doc_table, disk>>
  /\ UNCHANGED <<coreVars, llmVars, modelVars, cacheVars, queryVars, mgrVars>>

\* one iteration of the vision loop: status, analyze_image, status, the
\* description and the replacement of the placeholder
VisionStep(t, reply) ==
  /\ t \in DOMAIN pipe_task
  /\ pipe_task[t].pc = "vision"
  /\ LoopFree(t)
  /\ job_status' = "processing"
  /\ LET task == pipe_task[t]
         i == task.analyzed + 1
         desc == AnalyzeImage(reply)
     IN pipe_task' = [pipe_task EXCEPT ![t] =
          IF desc.raised THEN Raise(task, "vision")
          ELSE LET seen == [task EXCEPT
                              !.analyzed = i,
                              !.replies = Append(@, [service |-> "vision",
                                                     reply |-> reply,
                                                     text |-> desc.text]),
                              !.markdown = ReplaceToken(@, Placeholders[i],
                                                        <<"V">> \o desc.text)]
               IN [seen EXCEPT !.pc = AfterVision(seen)]]
  /\ UNCHANGED <<ephemeral, proc_req, doc_table, disk>>
  /\ UNCHANGED <<coreVars, llmVars, modelVars, cacheVars, queryVars, mgrVars>>

\* the audio step: status, transcribe_audio, the transcript appended
AudioStep(t, reply) ==
  /\ t \in DOMAIN pipe_task
  /\ pipe_task[t].pc = "audio"
  /\ LoopFree(t)
  /\ job_status' = "processing"
  /\ LET task == pipe_task[t]
         transcript == TranscribeAudio(reply)
     IN pipe_task' = [pipe_task EXCEPT ![t] =
          IF transcript.raised THEN Raise(task, "audio")
          ELSE [task EXCEPT
                  !.replies = Append(@, [service |-> "audio", reply |-> reply,
                                         text |-> transcript.text]),
                  !.markdown = @ \o <<"T">> \o transcript.text,
                  !.pc = "chunking"]]
  /\ UNCHANGED <<ephemeral, proc_req, doc_table, disk>>
  /\ UNCHANGED <<coreVars, llmVars, modelVars, cacheVars, queryVars, mgrVars>>

\* status and chunker.process, which raises on a document over the size limit
ChunkStep(t) ==
  /\ t \in DOMAIN pipe_task
  /\ pipe_task[t].pc = "chunking"
  /\ LoopFree(t)
  /\ job_status' = "processing"
  /\ LET task == pipe_task[t]
         r == Process(task.markdown, UploadSource, 1)
     IN pipe_task' = [pipe_task EXCEPT ![t] =
          IF r.raised THEN Raise(task, "chunking")
          ELSE [task EXCEPT !.child_chunks = r.out.child_chunks,
                            !.parent_map = r.out.parent_map,
                            !.pc = "embedding"]]
  /\ UNCHANGED <<ephemeral, proc_req, doc_table, disk>>
  /\ UNCHANGED <<coreVars, llmVars, modelVars, cacheVars, queryVars, mgrVars>>

\* when there are chunks: status, model.encode, which returns or raises, and
\* the index; index_document returns
EmbedStep(t, ok) ==
  /\ t \in DOMAIN pipe_task
  /\ pipe_task[t].pc = "embedding"
  /\ LoopFree(t)
  /\ LET task == pipe_task[t]
     IN IF task.child_chunks = <<>>
        THEN /\ ok
             /\ pipe_task' = [pipe_task EXCEPT ![t].pc = "preview"]
             /\ UNCHANGED job_status
        ELSE /\ job_status' = "processing"
             /\ pipe_task' = [pipe_task EXCEPT ![t] =
                  IF ~ok THEN Raise(task, "embedding")
                  ELSE [task EXCEPT
                          !.index = FlatIndex(Embeddings(task.child_chunks)),
                          !.pc = "preview"]]
  /\ UNCHANGED <<ephemeral, proc_req, doc_table, disk>>
  /\ UNCHANGED <<coreVars, llmVars, modelVars, cacheVars, queryVars, mgrVars>>

\* the markdown preview is written, or open() raises; then
\* update_status("indexing", "Finalizing Vector Index...")
PreviewStep(t, ok) ==
  /\ t \in DOMAIN pipe_task
  /\ pipe_task[t].pc = "preview"
  /\ LoopFree(t)
  /\ IF ok
     THEN /\ job_status' = "processing"
          /\ pipe_task' = [pipe_task EXCEPT ![t].pc = "insert"]
     ELSE /\ pipe_task' = [pipe_task EXCEPT ![t] = Raise(@, "preview")]
          /\ UNCHANGED job_status
  /\ UNCHANGED <<ephemeral, proc_req, doc_table, disk>>
  /\ UNCHANGED <<coreVars, llmVars, modelVars, cacheVars, queryVars, mgrVars>>

\* add_document_record in its thread: the INSERT, and in ephemeral mode
\* cur.lastrowid and the commit
InsertRecord(t, ok) ==
  /\ t \in DOMAIN pipe_task
  /\ pipe_task[t].pc = "insert"
  /\ IF ~ok
     THEN /\ pipe_task' = [pipe_task EXCEPT ![t] = Raise(@, "record")]
          /\ UNCHANGED doc_table
     ELSE LET id == Len(doc_table) + 1
          IN /\ doc_table' = Append(doc_table, DocumentRow(t, ephemeral))
             /\ pipe_task' = [pipe_task EXCEPT ![t] =
                  IF ephemeral
                  THEN [@ EXCEPT !.row = id, !.doc_id = id, !.pc = "save"]
                  ELSE [@ EXCEPT !.row = id, !.pc = "select_id"]]
  /\ UNCHANGED <<ephemeral, job_status, proc_req, disk>>
  /\ UNCHANGED <<coreVars, llmVars, modelVars, cacheVars, queryVars, mgrVars>>

\* the rows a statement of task t's transaction sees: the committed ones
\* and its own
VisibleRows(t) ==
  {id \in 1..Len(doc_table) : doc_table[id].committed \/ doc_table[id].task = t}

\* SELECT id FROM documents ORDER BY id DESC LIMIT 1
LastId(t, rows) == CHOOSE id \in rows : \A other \in rows : other <= id

\* add_document_record on Postgres, after the INSERT: the SELECT of the
\* last id, and the commit
SelectId(t) ==
  /\ t \in DOMAIN pipe_task
  /\ pipe_task[t].pc = "select_id"
  /\ pipe_task' = [pipe_task EXCEPT ![t] =
       [@ EXCEPT !.doc_id = LastId(t, VisibleRows(t)), !.pc = "graph"]]
  /\ doc_table' = [doc_table EXCEPT ![pipe_task[t].row].committed = TRUE]
  /\ UNCHANGED <<ephemeral, job_status, proc_req, disk>>
  /\ UNCHANGED <<coreVars, llmVars, modelVars, cacheVars, queryVars, mgrVars>>

\* update_status("graph", ...) and the post to the knowledge graph, whose
\* exceptions are logged
KgIngest(t) ==
  /\ t \in DOMAIN pipe_task
  /\ pipe_task[t].pc = "graph"
  /\ LoopFree(t)
  /\ job_status' = "processing"
  /\ pipe_task' = [pipe_task EXCEPT ![t].pc = "save"]
  /\ UNCHANGED <<ephemeral, proc_req, doc_table, disk>>
  /\ UNCHANGED <<coreVars, llmVars, modelVars, cacheVars, queryVars, mgrVars>>

FilesOf(id) == IF id \in DOMAIN disk THEN disk[id] ELSE NoFiles

\* _write_state_sync up to its n-th file: index, chunks, parents
WriteFiles(task, n) ==
  LET old == FilesOf(task.doc_id)
  IN [faiss |-> IF n >= 1 THEN Dump(task.index) ELSE old.faiss,
      chunks |-> IF n >= 2 THEN Dump(task.child_chunks) ELSE old.chunks,
      parents |-> IF n >= 3 THEN Dump(task.parent_map) ELSE old.parents]

\* the files of a save_state
StateFiles == {"faiss", "chunks", "parents"}

\* save_state(doc_id) in its thread: nothing without an index; else the
\* three files in turn, of which the write after the n-th raises
SaveStateStep(t, n) ==
  /\ t \in DOMAIN pipe_task
  /\ pipe_task[t].pc = "save"
  /\ LET task == pipe_task[t]
         all == Cardinality(StateFiles)
     IN IF ~task.index.present
        THEN /\ n = all
             /\ pipe_task' = [pipe_task EXCEPT ![t].pc = "paths"]
             /\ UNCHANGED disk
        ELSE /\ disk' = IF n = 0 THEN disk
                        ELSE (task.doc_id :> WriteFiles(task, n)) @@ disk
             /\ pipe_task' = [pipe_task EXCEPT ![t] =
                  LET written == [task EXCEPT !.wrote =
                                    IF n = 0 THEN @ ELSE @ \cup {task.doc_id}]
                  IN IF n < all THEN Raise(written, "save")
                     ELSE [written EXCEPT !.pc = "paths"]]
  /\ UNCHANGED <<ephemeral, job_status, proc_req, doc_table>>
  /\ UNCHANGED <<coreVars, llmVars, modelVars, cacheVars, queryVars, mgrVars>>

\* update_document_paths(doc_id, faiss_path, chunks_path) in its thread
UpdatePaths(t, ok) ==
  /\ t \in DOMAIN pipe_task
  /\ pipe_task[t].pc = "paths"
  /\ LET task == pipe_task[t]
     IN IF ~ok
        THEN /\ pipe_task' = [pipe_task EXCEPT ![t] = Raise(task, "paths")]
             /\ UNCHANGED doc_table
        ELSE /\ doc_table' = [doc_table EXCEPT ![task.doc_id] =
                  [@ EXCEPT
                     !.faiss_index_path =
                        IF task.index.present THEN FaissPath(task.doc_id) ELSE NoPath,
                     !.chunks_path =
                        IF task.index.present THEN ChunksPath(task.doc_id) ELSE NoPath]]
             /\ pipe_task' = [pipe_task EXCEPT ![t] =
                  [task EXCEPT !.wrote = @ \cup {task.doc_id}, !.pc = "completing"]]
  /\ UNCHANGED <<ephemeral, job_status, proc_req, disk>>
  /\ UNCHANGED <<coreVars, llmVars, modelVars, cacheVars, queryVars, mgrVars>>

\* upsert_job_status('completed'), then the sleep
Complete(t) ==
  /\ t \in DOMAIN pipe_task
  /\ pipe_task[t].pc = "completing"
  /\ LoopFree(t)
  /\ job_status' = "completed"
  /\ pipe_task' = [pipe_task EXCEPT ![t].pc = "sleeping"]
  /\ UNCHANGED <<ephemeral, proc_req, doc_table, disk>>
  /\ UNCHANGED <<coreVars, llmVars, modelVars, cacheVars, queryVars, mgrVars>>

\* after the sleep: final_check = db.get_job_status(collection_id) and the test
CleanupCheck(t) ==
  /\ t \in DOMAIN pipe_task
  /\ pipe_task[t].pc = "sleeping"
  /\ LoopFree(t)
  /\ pipe_task' = [pipe_task EXCEPT ![t].pc =
       IF job_status = "completed" THEN "cleanup_checked" ELSE "done"]
  /\ UNCHANGED <<ephemeral, job_status, proc_req, doc_table, disk>>
  /\ UNCHANGED <<coreVars, llmVars, modelVars, cacheVars, queryVars, mgrVars>>

\* db.delete_job_status(collection_id): DELETE ... WHERE collection_id
CleanupDelete(t) ==
  /\ t \in DOMAIN pipe_task
  /\ pipe_task[t].pc = "cleanup_checked"
  /\ job_status' = "none"
  /\ pipe_task' = [pipe_task EXCEPT ![t].pc = "done"]
  /\ UNCHANGED <<ephemeral, proc_req, doc_table, disk>>
  /\ UNCHANGED <<coreVars, llmVars, modelVars, cacheVars, queryVars, mgrVars>>

\* except Exception: upsert_job_status('error')
TaskExcept(t) ==
  /\ t \in DOMAIN pipe_task
  /\ pipe_task[t].pc = "raising"
  /\ LoopFree(t)
  /\ job_status' = "error"
  /\ pipe_task' = [pipe_task EXCEPT ![t].pc = "failed"]
  /\ UNCHANGED <<ephemeral, proc_req, doc_table, disk>>
  /\ UNCHANGED <<coreVars, llmVars, modelVars, cacheVars, queryVars, mgrVars>>

\* n requests for documents of a collection that holds one document
InitRequests(n) ==
  /\ CoreIdle
  /\ LLMIdle /\ ModelIdle /\ CacheIdle /\ QueryIdle /\ MgrIdle
  /\ ephemeral \in BOOLEAN
  /\ job_status = "none"
  /\ proc_req = [r \in 1..n |-> [pc |-> "start", seen |-> "none"]]
  /\ pipe_task = [r \in 1..n |-> NoTask]
  /\ doc_table = <<SiblingRow>>
  /\ disk = (1 :> SiblingFiles)

\* the steps of the requests and their tasks, for given sets of outcomes
\* of the parser and of the vision service
Steps(parses, replies) ==
  \/ \E r \in Requests, file_exists \in BOOLEAN : ProcessCheck(r, file_exists)
  \/ \E r \in Requests : ProcessQueue(r)
  \/ \E t \in Requests : TaskStart(t)
  \/ \E t \in Requests, o \in parses : ParseDocument(t, o)
  \/ \E t \in Requests, reply \in replies : VisionStep(t, reply)
  \/ \E t \in Requests, reply \in replies : AudioStep(t, reply)
  \/ \E t \in Requests : ChunkStep(t)
  \/ \E t \in Requests, ok \in BOOLEAN : EmbedStep(t, ok)
  \/ \E t \in Requests, ok \in BOOLEAN : PreviewStep(t, ok)
  \/ \E t \in Requests, ok \in BOOLEAN : InsertRecord(t, ok)
  \/ \E t \in Requests : SelectId(t)
  \/ \E t \in Requests : KgIngest(t)
  \/ \E t \in Requests, n \in 0..Cardinality(StateFiles) : SaveStateStep(t, n)
  \/ \E t \in Requests, ok \in BOOLEAN : UpdatePaths(t, ok)
  \/ \E t \in Requests : Complete(t)
  \/ \E t \in Requests : CleanupCheck(t)
  \/ \E t \in Requests : CleanupDelete(t)
  \/ \E t \in Requests : TaskExcept(t)

\* one request, with every outcome of the parser and of the vision service
InitIndexing == InitRequests(1)

NextIndexing == Steps(ParseOutcomes, ServiceReplies)

SpecIndexing == InitIndexing /\ [][NextIndexing]_vars

\* concurrent requests, with a parser that fails, returns an empty or an
\* oversized document, or a document with images and audio, and a vision
\* service that answers or is unreachable
ConcurrentParses ==
  {o \in ParseOutcomes :
     ~o.progress /\ (o.text = <<"a">> => o.images = MaxImages /\ o.audio)}

ConcurrentReplies == {"ok", "unreachable"}

InitPipeline == InitRequests(MaxRequests)

NextPipeline == Steps(ConcurrentParses, ConcurrentReplies)

SpecPipeline == InitPipeline /\ [][NextPipeline]_vars

\* ------------------------------------------------ pipeline task claims
\* C22: when a run_pipeline_task fails, at whatever stage, its exception is
\* caught and the job status of the collection becomes 'error', and the
\* task has written no row and no index, chunk or parent file of a document
\* other than the one it inserted.
C22_FailureIsolated ==
  [][\A t \in DOMAIN pipe_task :
       (pipe_task[t].pc = "raising" /\ pipe_task'[t].pc = "failed") =>
         /\ job_status' = "error"
         /\ pipe_task'[t].wrote \subseteq {pipe_task'[t].row}]_vars

\* the tasks that were scheduled and have not yet completed or failed
ActiveTasks ==
  {t \in DOMAIN pipe_task :
     pipe_task[t].pc \notin {"none", "sleeping", "cleanup_checked", "done", "failed"}}

\* C26: whatever the interleaving of the /process requests of a collection,
\* at most one scheduled pipeline task is under way at a time, and a
\* request that was answered 'already_queued' scheduled nothing.
C26_OneTaskPerCollection ==
  /\ Cardinality(ActiveTasks) <= 1
  /\ \A r \in DOMAIN proc_req :
       proc_req[r].pc = "already_queued" => pipe_task[r].pc = "none"

\* C30: the cleanup after the sleep deletes the job status only when the
\* status is 'completed' at the time of the deletion, never a 'queued',
\* 'processing' or 'error' status of a later run.
C30_CleanupDeletesOnlyCompleted ==
  [][\A t \in DOMAIN pipe_task :
       (pipe_task[t].pc = "cleanup_checked" /\ pipe_task'[t].pc = "done") =>
         job_status = "completed"]_vars

\* the calls of a task to the vision service that failed
FailedCalls(task) == {k \in DOMAIN task.replies : task.replies[k].reply # "ok"}

\* the tokens of the texts of a list of chunks
ChunkTokens(chunks) ==
  UNION {{chunks[c].text[k] : k \in DOMAIN chunks[c].text} : c \in DOMAIN chunks}

Callers == 1..MaxCallers

VisionNames == {"Ollama-Granite3.2-Vision", "Ollama-Llava", "Moondream2"}

\* _factory: the model object for a name, or None
Factory(name) ==
  IF name = "Ollama-Granite3.2-Vision" THEN "OllamaVisionModel(granite3.2-vision)"
  ELSE IF name = "Ollama-Llava" THEN "OllamaVisionModel(llava)"
  ELSE "None"

\* a request: use_vision_model(model_name) or use_whisper_model()
MgrRequests ==
  {[kind |-> "vision", name |-> n] : n \in VisionNames}
    \cup {[kind |-> "whisper", name |-> ""]}

NoCaller == [pc |-> "idle", kind |-> "none", name |-> "", model |-> "None"]

\* _is_vision_ready and _is_whisper_ready
IsReady(req) ==
  IF req.kind = "vision"
  THEN active_model # "None" /\ active_model_name = req.name /\ whisper_model = "None"
  ELSE whisper_model # "None" /\ active_model = "None"

\* mutant: a caller switches while others use the loaded model
MustWait_Never(users) == FALSE

\* if self.active_users > 0: self.condition.wait()
MustWait(users) == users > 0

\* mutant: the vision model stays loaded beside Whisper
OffloadForWhisper_Kept(model, name) == [model |-> model, name |-> name]

\* _perform_switch_to_whisper, step 1: the vision model is offloaded
OffloadForWhisper(model, name) == [model |-> "None", name |-> ""]

\* a caller enters use_vision_model or use_whisper_model
MgrCall(t, req) ==
  /\ mgr_thread[t].pc = "idle"
  /\ mgr_thread' = [mgr_thread EXCEPT ![t] =
       [pc |-> "acquire", kind |-> req.kind, name |-> req.name, model |-> "None"]]
  /\ UNCHANGED <<active_model, active_model_name, whisper_model, active_users, mgr_lock>>
  /\ UNCHANGED <<coreVars, llmVars, modelVars, cacheVars, queryVars, pipeVars>>

\* with self.lock, and the lock taken again when condition.wait() returns
MgrAcquire(t) ==
  /\ mgr_thread[t].pc = "acquire"
  /\ mgr_lock = 0
  /\ mgr_lock' = t
  /\ mgr_thread' = [mgr_thread EXCEPT ![t].pc = "check"]
  /\ UNCHANGED <<active_model, active_model_name, whisper_model, active_users>>
  /\ UNCHANGED <<coreVars, llmVars, modelVars, cacheVars, queryVars, pipeVars>>

\* one test of the while loop: ready (the caller counts itself, takes the
\* model and leaves the lock), wait (the lock is released), or switch
MgrCheck(t) ==
  /\ mgr_thread[t].pc = "check"
  /\ mgr_lock = t
  /\ LET req == mgr_thread[t]
     IN IF IsReady(req)
        THEN /\ active_users' = active_users + 1
             /\ mgr_thread' = [mgr_thread EXCEPT ![t] =
                  [@ EXCEPT !.pc = "inside",
                            !.model = IF req.kind = "vision" THEN active_model
                                      ELSE whisper_model]]
             /\ mgr_lock' = 0
        ELSE IF MustWait(active_users)
        THEN /\ mgr_thread' = [mgr_thread EXCEPT ![t].pc = "waiting"]
             /\ mgr_lock' = 0
             /\ UNCHANGED active_users
        ELSE /\ mgr_thread' = [mgr_thread EXCEPT ![t].pc = "offload"]
             /\ UNCHANGED <<active_users, mgr_lock>>
  /\ UNCHANGED <<active_model, active_model_name, whisper_model>>
  /\ UNCHANGED <<coreVars, llmVars, modelVars, cacheVars, queryVars, pipeVars>>

\* the offloads of _perform_switch_to_vision (Whisper, and a vision model
\* of another name) and of _perform_switch_to_whisper (the vision model)
MgrOffload(t) ==
  /\ mgr_thread[t].pc = "offload"
  /\ mgr_lock = t
  /\ LET req == mgr_thread[t]
     IN IF req.kind = "vision"
        THEN /\ whisper_model' = "None"
             /\ IF active_model # "None" /\ active_model_name # req.name
                THEN active_model' = "None" /\ active_model_name' = ""
                ELSE UNCHANGED <<active_model, active_model_name>>
        ELSE LET off == OffloadForWhisper(active_model, active_model_name)
             IN /\ active_model' = off.model
                /\ active_model_name' = off.name
                /\ UNCHANGED whisper_model
  /\ mgr_thread' = [mgr_thread EXCEPT ![t].pc = "load"]
  /\ UNCHANGED <<active_users, mgr_lock>>
  /\ UNCHANGED <<coreVars, llmVars, modelVars, cacheVars, queryVars, pipeVars>>

\* the load of the target when it is not loaded: load() returns True, or it
\* returns False or the factory knows no such model, and the switch raises
\* out of the with block
MgrLoad(t, loads) ==
  /\ mgr_thread[t].pc = "load"
  /\ mgr_lock = t
  /\ LET req == mgr_thread[t]
         loaded == IF req.kind = "vision" THEN active_model # "None"
                   ELSE whisper_model # "None"
         new_model == IF req.kind = "vision" THEN Factory(req.name) ELSE "WhisperAudioModel"
     IN IF loaded
        THEN /\ loads
             /\ mgr_thread' = [mgr_thread EXCEPT ![t].pc = "check"]
             /\ UNCHANGED <<active_model, active_model_name, whisper_model, mgr_lock>>
        ELSE IF new_model = "None" \/ ~loads
        THEN /\ mgr_thread' = [mgr_thread EXCEPT ![t].pc = "raised"]
             /\ mgr_lock' = 0
             /\ UNCHANGED <<active_model, active_model_name, whisper_model>>
        ELSE /\ IF req.kind = "vision"
                THEN /\ active_model' = new_model
                     /\ active_model_name' = req.name
                     /\ UNCHANGED whisper_model
                ELSE /\ whisper_model' = new_model
                     /\ UNCHANGED <<active_model, active_model_name>>
             /\ mgr_thread' = [mgr_thread EXCEPT ![t].pc = "check"]
             /\ UNCHANGED mgr_lock
  /\ UNCHANGED active_users
  /\ UNCHANGED <<coreVars, llmVars, modelVars, cacheVars, queryVars, pipeVars>>

\* the end of the with block of a caller: under the lock, active_users -= 1
\* and notify_all when it is 0
MgrRelease(t) ==
  /\ mgr_thread[t].pc = "inside"
  /\ mgr_lock = 0
  /\ active_users' = active_users - 1
  /\ mgr_thread' = [u \in DOMAIN mgr_thread |->
       IF u = t THEN NoCaller
       ELSE IF active_users - 1 = 0 /\ mgr_thread[u].pc = "waiting"
       THEN [mgr_thread[u] EXCEPT !.pc = "acquire"]
       ELSE mgr_thread[u]]
  /\ UNCHANGED <<active_model, active_model_name, whisper_model, mgr_lock>>
  /\ UNCHANGED <<coreVars, llmVars, modelVars, cacheVars, queryVars, pipeVars>>

\* the exception of a failed switch has left the caller
MgrRaised(t) ==
  /\ mgr_thread[t].pc = "raised"
  /\ mgr_thread' = [mgr_thread EXCEPT ![t] = NoCaller]
  /\ UNCHANGED <<active_model, active_model_name, whisper_model, active_users, mgr_lock>>
  /\ UNCHANGED <<coreVars, llmVars, modelVars, cacheVars, queryVars, pipeVars>>

\* ModelManager.__new__
InitManager ==
  /\ CoreIdle
  /\ LLMIdle /\ ModelIdle /\ CacheIdle /\ QueryIdle /\ PipeIdle
  /\ active_model = "None"
  /\ active_model_name = ""
  /\ whisper_model = "None"
  /\ active_users = 0
  /\ mgr_lock = 0
  /\ mgr_thread = [t \in Callers |-> NoCaller]

NextManager ==
  \/ \E t \in Callers, req \in MgrRequests : MgrCall(t, req)
  \/ \E t \in Callers : MgrAcquire(t)
  \/ \E t \in Callers : MgrCheck(t)
  \/ \E t \in Callers : MgrOffload(t)
  \/ \E t \in Callers, loads \in BOOLEAN : MgrLoad(t, loads)
  \/ \E t \in Callers : MgrRelease(t)
  \/ \E t \in Callers : MgrRaised(t)

SpecManager == InitManager /\ [][NextManager]_vars

\* the callers inside their with block
Inside == {t \in Callers : mgr_thread[t].pc = "inside"}

\* C27: a caller offloads or loads a model only while active_users is 0,
\* active_users is never below 0 (it is the number of callers inside a with
\* block), and while a caller is inside its with block the model it asked
\* for is the loaded one, and is the one it was given.
C27_SwitchOnlyWhenUnused ==
  /\ \A t \in Callers : mgr_thread[t].pc \in {"offload", "load"} => active_users = 0
  /\ active_users >= 0
  /\ active_users = Cardinality(Inside)
  /\ \A t \in Inside :
       /\ IsReady(mgr_thread[t])
       /\ mgr_thread[t].model =
            IF mgr_thread[t].kind = "vision" THEN Factory(mgr_thread[t].name)
            ELSE "WhisperAudioModel"

\* two callers use one vision model while a caller that asked for Whisper
\* waits
C27_Witness ==
  /\ Cardinality(Inside) = 2
  /\ \A t \in Inside : mgr_thread[t].kind = "vision"
  /\ \E t \in Callers : mgr_thread[t].pc = "waiting" /\ mgr_thread[t].kind = "whisper"

\* C28: in every state of the manager, also after a load that failed
\* inside a switch, a vision model and the Whisper model are not both
\* loaded, and active_model_name is non-empty exactly when active_model is
\* not None.
C28_OneModelLoaded ==
  /\ ~(active_model # "None" /\ whisper_model # "None")
  /\ (active_model_name # "") <=> (active_model # "None")

\* a switch to Whisper has failed at the load and nothing is loaded, while
\* another caller is in a switch to a vision model
C28_Witness ==
  /\ \E t \in Callers : mgr_thread[t].pc = "raised" /\ mgr_thread[t].kind = "whisper"
  /\ active_model = "None" /\ active_model_name = "" /\ whisper_model = "None"
  /\ \E t \in Callers : mgr_thread[t].pc = "load" /\ mgr_thread[t].kind = "vision"

====
